---- MODULE Spec2Model ----
(***************************************************************************)
(* Model of the scan engine of IntelliScan: NetworkScanner                 *)
(* (src/scanner/network_scanner.py) and AnomalyDetector                    *)
(* (src/scanner/anomaly_detection.py).                                     *)
(*                                                                         *)
(* Python dicts are modelled as sequences of <<key, value>> pairs, in      *)
(* insertion order.  A missing key or a Python None is the value None.     *)
(* A progress value is kept as an exact fraction [num, den]: the float     *)
(* (completed_tasks / total_tasks) * 100 is 100 * completed / total.       *)
(***************************************************************************)
EXTENDS Integers, Sequences, FiniteSets, TLC

\* Python None (the not-found value of the getters, the default of dict.get)
None == [py |-> "None"]

\* rec[k] = v on a Python dict with string keys, modelled as a record
SetKey(rec, k, v) == [x \in DOMAIN rec \cup {k} |-> IF x = k THEN v ELSE rec[x]]

\* rec.get(k)
GetKey(rec, k) == IF k \in DOMAIN rec THEN rec[k] ELSE None

(***************************************************************************)
(* Bounds of the model.                                                    *)
(***************************************************************************)
\* the largest len(targets) * len(ports) of a scan request
MaxTasks == 4
\* the largest value the wall clock reaches
MaxTime == 1
\* size of the shared ThreadPoolExecutor (config.py sets 50; scaled down so
\* that the pool can be saturated within MaxTasks)
MAX_CONCURRENT_SCANS == 2

\* scan ids are uuid4 strings generated by the route, one per request
ScanIds == {"s1", "s2"}
\* target lists as parse_target_input returns them: non-empty, no duplicates
TargetLists == {<<"10.0.0.5">>, <<"10.0.0.5", "8.8.8.8">>,
                <<"192.168.1.1", "10.0.0.5", "8.8.8.8">>}
\* port lists: from SCAN_TYPES or custom (custom lists may repeat a port)
PortLists == {<< >>, <<80>>, <<22, 80>>, <<21, 23>>, <<80, 80>>, <<21, 22, 23>>}

(***************************************************************************)
(* Python dict helpers.                                                    *)
(***************************************************************************)
DictKeys(d) == {d[i][1] : i \in DOMAIN d}

DictHas(d, k) == k \in DictKeys(d)

DictGet(d, k) == d[CHOOSE i \in DOMAIN d : d[i][1] = k][2]

\* d[k] = v: an existing key keeps its position, a new key is appended
DictSet(d, k, v) ==
    IF DictHas(d, k)
    THEN [i \in DOMAIN d |-> IF d[i][1] = k THEN <<k, v>> ELSE d[i]]
    ELSE Append(d, <<k, v>>)

(***************************************************************************)
(* Progress values (exact fractions).                                      *)
(***************************************************************************)
Frac(n, d) == [num |-> n, den |-> d]

ProgEq(a, b) == a.num * b.den = b.num * a.den

ProgLe(a, b) == a.num * b.den <= b.num * a.den

Zero == Frac(0, 1)

Hundred == Frac(100, 1)

(***************************************************************************)
(* _scan_port: classification of the reply to one SYN probe.               *)
(* A reply is [kind, flags]: kind "none" (sr1 returned None on timeout),   *)
(* "nontcp" (a packet without TCP layer), "tcp" (a TCP segment with the    *)
(* given 9-bit flags) or "raise" (sending or receiving raised an OSError,   *)
(* whose errno the flags field then holds).                                *)
(***************************************************************************)
SYN_ACK == 18

RST_ACK == 20

TcpFlags == 0..511

Reply(kind, flags) == [kind |-> kind, flags |-> flags]

NoReply == Reply("none", 0)

\* PermissionError: no privilege to open the raw socket
Raises == Reply("raise", 1)

\* OSError: network is unreachable
RaisesUnreachable == Reply("raise", 101)

Replies == {NoReply, Raises, RaisesUnreachable, Reply("nontcp", 0)}
              \cup {Reply("tcp", f) : f \in TcpFlags}

\* str(e) of the exception a probe raised
StrOfException(reply) ==
    "[Errno " \o ToString(reply.flags) \o "] "
       \o (IF reply.flags = 1 THEN "Operation not permitted" ELSE "Network is unreachable")

RECURSIVE BitAnd(_, _)
BitAnd(a, b) ==
    IF a = 0 \/ b = 0 THEN 0
    ELSE (a % 2) * (b % 2) + 2 * BitAnd(a \div 2, b \div 2)

common_ports ==
    << <<21, "FTP">>, <<22, "SSH">>, <<23, "Telnet">>, <<25, "SMTP">>, <<53, "DNS">>,
       <<80, "HTTP">>, <<110, "POP3">>, <<143, "IMAP">>, <<443, "HTTPS">>,
       <<445, "SMB">>, <<3306, "MySQL">>, <<3389, "RDP">>, <<5432, "PostgreSQL">>,
       <<8080, "HTTP-Proxy">>, <<8443, "HTTPS-Alt">> >>

GuessService(port) ==
    IF DictHas(common_ports, port) THEN DictGet(common_ports, port)
    ELSE "Unknown (" \o ToString(port) \o ")"

\* PortStatus with the rule of scan_with_scapy: exact flags, 'filtered' otherwise
PortStatusAsScanWithScapy(reply) ==
    IF reply.kind = "tcp" /\ reply.flags = SYN_ACK THEN "open"
    ELSE IF reply.kind = "tcp" /\ reply.flags = RST_ACK THEN "closed"
    ELSE "filtered"

\* the status _scan_port derives from a reply that did not raise
PortStatus(reply) ==
    IF reply.kind = "tcp"
    THEN IF BitAnd(reply.flags, SYN_ACK) # 0 THEN "open"
         ELSE IF BitAnd(reply.flags, RST_ACK) # 0 THEN "closed"
         ELSE "closed"
    ELSE "closed"

\* ScanPort whose error entry has no service
ScanPortErrorWithoutService(port, reply) ==
    IF reply.kind = "raise"
    THEN [status |-> "error", error |-> StrOfException(reply)]
    ELSE [status |-> PortStatus(reply), service |-> GuessService(port)]

\* ScanPort that keeps the default status when the probe raised
ScanPortErrorAsClosed(port, reply) ==
    IF reply.kind = "raise"
    THEN [status |-> "closed", error |-> StrOfException(reply), service |-> GuessService(port)]
    ELSE [status |-> PortStatus(reply), service |-> GuessService(port)]

\* the PortResult _scan_port stores for (target, port)
ScanPort(port, reply) ==
    IF reply.kind = "raise"
    THEN [status |-> "error", error |-> StrOfException(reply),
          service |-> GuessService(port)]
    ELSE [status |-> PortStatus(reply), service |-> GuessService(port)]

\* FutureOutcome of a _scan_port without its except clause
FutureOutcomeRaises(reply) == IF reply.kind = "raise" THEN "failed" ELSE "finished"

\* how the future of a _scan_port task ends: the except clause of line 224
\* catches what sending or receiving raised, so the task always returns
FutureOutcome(reply) == "finished"

(***************************************************************************)
(* AnomalyDetector.detect: three rule passes over results['results'].      *)
(***************************************************************************)
\* suspicious_combinations whose remote access set has no Telnet port
suspicious_combinations_without_telnet ==
    << [ports |-> <<22, 2222>>, description |-> "Multiple SSH ports open"],
       [ports |-> <<80, 8080, 8888>>, description |-> "Multiple HTTP ports open"],
       [ports |-> <<21, 22>>, description |-> "Multiple remote access services"],
       [ports |-> <<3306, 5432>>, description |-> "Multiple database services"] >>

suspicious_combinations ==
    << [ports |-> <<22, 2222>>, description |-> "Multiple SSH ports open"],
       [ports |-> <<80, 8080, 8888>>, description |-> "Multiple HTTP ports open"],
       [ports |-> <<21, 22, 23>>, description |-> "Multiple remote access services"],
       [ports |-> <<3306, 5432>>, description |-> "Multiple database services"] >>

vulnerable_services ==
    << [port |-> 21, service |-> "FTP", severity |-> "high"],
       [port |-> 23, service |-> "Telnet", severity |-> "high"],
       [port |-> 25, service |-> "SMTP", severity |-> "medium"],
       [port |-> 445, service |-> "SMB", severity |-> "high"],
       [port |-> 3389, service |-> "RDP", severity |-> "medium"] >>

\* concatenation of f[1], ..., f[n] for a sequence f of sequences
RECURSIVE Flatten(_)
Flatten(f) == IF f = << >> THEN << >> ELSE Head(f) \o Flatten(Tail(f))

Range(sq) == {sq[i] : i \in DOMAIN sq}

\* OpenPorts that takes every port whose status is not 'closed'
OpenPortsNotClosed(target_data) ==
    LET open == SelectSeq(target_data.ports, LAMBDA kv : kv[2].status # "closed")
    IN  [i \in DOMAIN open |-> open[i][1]]

\* the list open_ports of one target: the keys of its ports dict with status 'open'
OpenPorts(target_data) ==
    LET open == SelectSeq(target_data.ports, LAMBDA kv : kv[2].status = "open")
    IN  [i \in DOMAIN open |-> open[i][1]]

\* CheckUnusualPortCombinations that wants every port of a set to be open
CheckUnusualPortCombinationsWholeSet(res) ==
    Flatten([i \in DOMAIN res |->
        LET target == res[i][1]
            open_ports == OpenPorts(res[i][2])
        IN  Flatten([c \in DOMAIN suspicious_combinations |->
                LET combo == suspicious_combinations[c]
                    matching_ports == SelectSeq(combo.ports, LAMBDA p : p \in Range(open_ports))
                IN  IF Len(matching_ports) = Len(combo.ports)
                    THEN << [type |-> "unusual_port_combination", target |-> target,
                             ports |-> matching_ports, description |-> combo.description,
                             severity |-> "medium"] >>
                    ELSE << >>])])

CheckUnusualPortCombinations(res) ==
    Flatten([i \in DOMAIN res |->
        LET target == res[i][1]
            open_ports == OpenPorts(res[i][2])
        IN  Flatten([c \in DOMAIN suspicious_combinations |->
                LET combo == suspicious_combinations[c]
                    matching_ports == SelectSeq(combo.ports, LAMBDA p : p \in Range(open_ports))
                IN  IF Len(matching_ports) >= 2
                    THEN << [type |-> "unusual_port_combination", target |-> target,
                             ports |-> matching_ports, description |-> combo.description,
                             severity |-> "medium"] >>
                    ELSE << >>])])

\* CheckPotentialVulnerabilities that does not look at the status of the port
CheckPotentialVulnerabilitiesAnyStatus(res) ==
    Flatten([i \in DOMAIN res |->
        LET target == res[i][1]
            ports == res[i][2].ports
        IN  Flatten([j \in DOMAIN ports |->
                Flatten([v \in DOMAIN vulnerable_services |->
                    IF ports[j][1] = vulnerable_services[v].port
                    THEN << [type |-> "potential_vulnerability", target |-> target,
                             port |-> ports[j][1], service |-> ports[j][2].service,
                             severity |-> vulnerable_services[v].severity] >>
                    ELSE << >>])])])

CheckPotentialVulnerabilities(res) ==
    Flatten([i \in DOMAIN res |->
        LET target == res[i][1]
            ports == res[i][2].ports
        IN  Flatten([j \in DOMAIN ports |->
                IF ports[j][2].status = "open"
                THEN Flatten([v \in DOMAIN vulnerable_services |->
                        IF ports[j][1] = vulnerable_services[v].port
                        THEN << [type |-> "potential_vulnerability", target |-> target,
                                 port |-> ports[j][1], service |-> ports[j][2].service,
                                 severity |-> vulnerable_services[v].severity] >>
                        ELSE << >>])
                ELSE << >>])])

\* GroupPatterns whose key is the list of open ports as found, not sorted
RECURSIVE GroupPatternsUnsorted(_, _)
GroupPatternsUnsorted(two, acc) ==
    IF two = << >> THEN acc
    ELSE LET target == Head(two)[1]
             port_pattern == Head(two)[2]
             old == IF DictHas(acc, port_pattern) THEN DictGet(acc, port_pattern) ELSE << >>
         IN  GroupPatternsUnsorted(Tail(two), DictSet(acc, port_pattern, Append(old, target)))

\* GroupPatterns that puts a target into a group whose pattern has as many ports
RECURSIVE GroupPatternsByLength(_, _)
GroupPatternsByLength(two, acc) ==
    IF two = << >> THEN acc
    ELSE LET target == Head(two)[1]
             same == {k \in DictKeys(acc) : Len(k) = Len(Head(two)[2])}
             port_pattern == IF same # {} THEN CHOOSE k \in same : TRUE
                             ELSE SortSeq(Head(two)[2], <)
             old == IF DictHas(acc, port_pattern) THEN DictGet(acc, port_pattern) ELSE << >>
         IN  GroupPatternsByLength(Tail(two), DictSet(acc, port_pattern, Append(old, target)))

\* port_patterns: dict from the sorted tuple of open ports to the list of targets
RECURSIVE GroupPatterns(_, _)
GroupPatterns(two, acc) ==
    IF two = << >> THEN acc
    ELSE LET target == Head(two)[1]
             port_pattern == SortSeq(Head(two)[2], <)
             old == IF DictHas(acc, port_pattern) THEN DictGet(acc, port_pattern) ELSE << >>
         IN  GroupPatterns(Tail(two), DictSet(acc, port_pattern, Append(old, target)))

CheckUnusualNetworkPatterns(res) ==
    LET all == [i \in DOMAIN res |-> <<res[i][1], OpenPorts(res[i][2])>>]
        targets_with_open_ports == SelectSeq(all, LAMBDA kv : kv[2] # << >>)
        port_patterns == GroupPatterns(targets_with_open_ports, << >>)
    IN  IF Len(targets_with_open_ports) > 1
        THEN Flatten([g \in DOMAIN port_patterns |->
                IF Len(port_patterns[g][2]) > 1 /\ Len(port_patterns[g][1]) > 2
                THEN << [type |-> "identical_port_pattern", targets |-> port_patterns[g][2],
                         ports |-> port_patterns[g][1], severity |-> "low"] >>
                ELSE << >>])
        ELSE << >>

\* Detect that runs the pass over the network patterns first
DetectPatternsFirst(scan_results_arg) ==
    CheckUnusualNetworkPatterns(scan_results_arg.results)
      \o CheckUnusualPortCombinations(scan_results_arg.results)
      \o CheckPotentialVulnerabilities(scan_results_arg.results)

Detect(scan_results_arg) ==
    CheckUnusualPortCombinations(scan_results_arg.results)
      \o CheckPotentialVulnerabilities(scan_results_arg.results)
      \o CheckUnusualNetworkPatterns(scan_results_arg.results)

(***************************************************************************)
(* State of one NetworkScanner and of the threads it starts.               *)
(***************************************************************************)
VARIABLES
    active_scans,   \* self.active_scans: function from the scan ids it holds to their records
    scan_results,   \* self.scan_results: function from the scan ids it holds to their results
    files,          \* SCAN_RESULTS_DIR: function from scan id to the content of <scan id>.json
    now,            \* the wall clock read by time.time()
    pc,             \* position of the thread running _execute_scan(scan id)
    results,        \* the dict `results` of _execute_scan, shared with its probe tasks
    loc,            \* the other locals of _execute_scan
    fut_state,      \* state of each future of `futures`: pending, running, finished
    work_queue,     \* the executor's FIFO queue of submitted tasks <<scan id, index>>
    requests,       \* the scan requests the route has yet to pass to start_scan
    net,            \* the replies the network can give to a probe
    live_net,       \* the outcomes the network can give to a liveness check
    got,            \* for each scan, the reply each finished probe task got
    acks,           \* function from scan id to the dict start_scan has returned for it
    save_calls,     \* the scan ids _save_results has been called with
    last_read,      \* the latest call of a getter by a client, with what it returned
    scapy           \* the call of scan_with_scapy in progress: its arguments and locals

vars == <<active_scans, scan_results, files, now, pc, results, loc, fut_state, work_queue,
          requests, net, live_net, got, acks, save_calls, last_read, scapy>>

\* outcomes of one liveness check of _discover_hosts
CheckOutcomes == {"reply", "noreply", "raise"}

\* replies the probes of a scan receive: none, an exception, SYN+ACK
ScanReplies == {NoReply, Raises, Reply("tcp", SYN_ACK)}

\* time.time(): the clock does not run backwards
ClockReads == {t \in {now, now + 1} : t <= MaxTime}

\* a request: the arguments the route passes to start_scan
Requests == {[targets |-> targets, ports |-> ports] :
                targets \in TargetLists, ports \in PortLists}

ScanRequests == {r \in Requests : Len(r.targets) * Len(r.ports) <= MaxTasks}

\* no getter has been called yet
NoRead == [op |-> "none"]

\* scan_with_scapy has not been called
NoCall == [pc |-> "none"]

NoLocals ==
    [start_time |-> 0, total_tasks |-> 0, completed_tasks |-> 0, checks |-> << >>,
     live_hosts |-> << >>, futures |-> << >>, ti |-> 1, pj |-> 0, fi |-> 1,
     end_time |-> 0, e |-> ""]

Init ==
    /\ active_scans = << >>
    /\ scan_results = << >>
    /\ files = << >>
    /\ now = 0
    /\ pc = [s \in ScanIds |-> "idle"]
    /\ results = << >>
    /\ loc = [s \in ScanIds |-> NoLocals]
    /\ fut_state = [s \in ScanIds |-> << >>]
    /\ work_queue = << >>
    /\ \E r \in ScanRequests : requests = ("s1" :> r)
    /\ net = ScanReplies
    /\ live_net = CheckOutcomes
    /\ got = [s \in ScanIds |-> << >>]
    /\ acks = << >>
    /\ save_calls = {}
    /\ last_read = NoRead
    /\ scapy = NoCall

(***************************************************************************)
(* start_scan (called by the route with a fresh uuid4 as scan_id): lines    *)
(* 42-58 create the record and start the thread, lines 60-65 return the    *)
(* acknowledgement; the new thread can run between the two.                *)
(***************************************************************************)
start_scan(s, targets, ports) ==
    /\ s \in DOMAIN requests
    /\ requests[s] = [targets |-> targets, ports |-> ports]
    /\ requests' = [x \in DOMAIN requests \ {s} |-> requests[x]]
    /\ \E t \in ClockReads :
         /\ now' = t
         /\ active_scans' = (s :> [status |-> "running", start_time |-> t, progress |-> Zero,
                                   targets |-> targets, ports |-> ports, results |-> << >>])
                             @@ active_scans
    /\ pc' = [pc EXCEPT ![s] = "begin"]
    /\ UNCHANGED <<scan_results, files, results, loc, fut_state, work_queue, net, live_net, got, acks, save_calls, last_read, scapy>>

\* ReturnAck that joins the thread before it returns
ReturnAckAfterJoin(s) ==
    /\ s \in DOMAIN active_scans
    /\ s \notin DOMAIN acks
    /\ pc[s] = "done"
    /\ acks' = (s :> [scan_id |-> s, status |-> "running",
                      targets |-> active_scans[s].targets,
                      ports |-> active_scans[s].ports]) @@ acks
    /\ UNCHANGED <<active_scans, scan_results, files, now, pc, results, loc, fut_state, work_queue, requests, net, live_net, got, save_calls, last_read, scapy>>

\* lines 60-65: start_scan returns its acknowledgement
ReturnAck(s) ==
    /\ s \in DOMAIN active_scans
    /\ s \notin DOMAIN acks
    /\ acks' = (s :> [scan_id |-> s, status |-> "running",
                      targets |-> active_scans[s].targets,
                      ports |-> active_scans[s].ports]) @@ acks
    /\ UNCHANGED <<active_scans, scan_results, files, now, pc, results, loc, fut_state, work_queue, requests, net, live_net, got, save_calls, last_read, scapy>>

(***************************************************************************)
(* _execute_scan, one action per step of the background thread.            *)
(***************************************************************************)
\* TotalTasks that forgets the ports
TotalTasksTargetsOnly(s) == Len(active_scans[s].targets)

\* line 83
TotalTasks(s) == Len(active_scans[s].targets) * Len(active_scans[s].ports)

\* lines 73-84
Begin(s) ==
    /\ pc[s] = "begin"
    /\ \E t \in ClockReads :
         /\ now' = t
         /\ results' = (s :> [scan_id |-> s, start_time |-> t,
                              targets |-> active_scans[s].targets,
                              ports |-> active_scans[s].ports, results |-> << >>])
                        @@ results
         /\ loc' = [loc EXCEPT ![s].start_time = t, ![s].total_tasks = TotalTasks(s),
                                ![s].completed_tasks = 0]
    /\ pc' = [pc EXCEPT ![s] = "discover"]
    /\ UNCHANGED <<active_scans, scan_results, files, fut_state, work_queue, requests, net, live_net, got, acks, save_calls, last_read, scapy>>

\* LiveAfterCheck that leaves out a target whose check raised
LiveAfterCheckFailClosed(live_hosts, target, outcome) ==
    IF outcome = "reply" THEN Append(live_hosts, target) ELSE live_hosts

\* _discover_hosts: what one iteration of the loop does with its check's outcome
LiveAfterCheck(live_hosts, target, outcome) ==
    IF outcome \in {"reply", "raise"} THEN Append(live_hosts, target) ELSE live_hosts

\* line 87: one iteration of the loop of _discover_hosts per step
Discover(s) ==
    /\ pc[s] = "discover"
    /\ LET i == Len(loc[s].checks) + 1
           target == active_scans[s].targets[i]
       IN  \E outcome \in live_net :
             /\ loc' = [loc EXCEPT ![s].checks = Append(@, outcome),
                                    ![s].live_hosts = LiveAfterCheck(@, target, outcome)]
             /\ pc' = [pc EXCEPT ![s] =
                          IF i = Len(active_scans[s].targets) THEN "submit" ELSE "discover"]
    /\ UNCHANGED <<active_scans, scan_results, files, now, results, fut_state, work_queue, requests, net, live_net, got, acks, save_calls, last_read, scapy>>

\* ScannedHosts that iterates over every requested target
ScannedHostsAllTargets(s) == active_scans[s].targets

\* line 92: the targets whose results entry the submission loop creates
ScannedHosts(s) == loc[s].live_hosts

\* line 93
InitTarget(s) ==
    /\ pc[s] = "submit"
    /\ loc[s].ti <= Len(ScannedHosts(s))
    /\ loc[s].pj = 0
    /\ results' = [results EXCEPT ![s].results =
          DictSet(@, ScannedHosts(s)[loc[s].ti], [status |-> "scanned", ports |-> << >>])]
    /\ loc' = IF active_scans[s].ports = << >>
              THEN [loc EXCEPT ![s].ti = @ + 1]
              ELSE [loc EXCEPT ![s].pj = 1]
    /\ UNCHANGED <<active_scans, scan_results, files, now, pc, fut_state, work_queue, requests, net, live_net, got, acks, save_calls, last_read, scapy>>

\* lines 97-106: executor.submit accepts the task
Submit(s) ==
    /\ pc[s] = "submit"
    /\ loc[s].ti <= Len(ScannedHosts(s))
    /\ loc[s].pj >= 1
    /\ LET task == <<ScannedHosts(s)[loc[s].ti], active_scans[s].ports[loc[s].pj]>>
           last == loc[s].pj = Len(active_scans[s].ports)
       IN  /\ loc' = [loc EXCEPT ![s].futures = Append(@, task),
                                  ![s].pj = IF last THEN 0 ELSE @ + 1,
                                  ![s].ti = IF last THEN @ + 1 ELSE @]
           /\ fut_state' = [fut_state EXCEPT ![s] = Append(@, "pending")]
           /\ work_queue' = Append(work_queue, <<s, Len(loc[s].futures) + 1>>)
    /\ UNCHANGED <<active_scans, scan_results, files, now, pc, results, requests, net, live_net, got, acks, save_calls, last_read, scapy>>

\* lines 97-106: executor.submit raises RuntimeError (no new thread can be started)
SubmitFails(s) ==
    /\ pc[s] = "submit"
    /\ loc[s].ti <= Len(ScannedHosts(s))
    /\ loc[s].pj >= 1
    /\ loc' = [loc EXCEPT ![s].e = "can't start new thread"]
    /\ pc' = [pc EXCEPT ![s] = "except"]
    /\ UNCHANGED <<active_scans, scan_results, files, now, results, fut_state, work_queue, requests, net, live_net, got, acks, save_calls, last_read, scapy>>

\* line 92: the loop over live_hosts ends
SubmitDone(s) ==
    /\ pc[s] = "submit"
    /\ loc[s].ti > Len(ScannedHosts(s))
    /\ pc' = [pc EXCEPT ![s] = "wait"]
    /\ UNCHANGED <<active_scans, scan_results, files, now, results, loc, fut_state, work_queue, requests, net, live_net, got, acks, save_calls, last_read, scapy>>

\* line 112
Progress(completed_tasks, total_tasks) == Frac(100 * completed_tasks, total_tasks)

\* Wait that counts the next future without waiting for its result
WaitWithoutBlocking(s) ==
    /\ pc[s] = "wait"
    /\ loc[s].fi <= Len(loc[s].futures)
    /\ loc' = [loc EXCEPT ![s].completed_tasks = @ + 1, ![s].fi = @ + 1]
    /\ active_scans' = [active_scans EXCEPT ![s].progress =
          Progress(loc[s].completed_tasks + 1, loc[s].total_tasks)]
    /\ UNCHANGED <<pc, scan_results, files, now, results, fut_state, work_queue, requests, net, live_net, got, acks, save_calls, last_read, scapy>>

\* lines 109-116: future.result() for the next future, in submission order,
\* returns, or re-raises what the task raised
Wait(s) ==
    /\ pc[s] = "wait"
    /\ loc[s].fi <= Len(loc[s].futures)
    /\ fut_state[s][loc[s].fi] \in {"finished", "failed"}
    /\ IF fut_state[s][loc[s].fi] = "failed"
       THEN /\ loc' = [loc EXCEPT ![s].e = StrOfException(got[s][loc[s].fi])]
            /\ pc' = [pc EXCEPT ![s] = "except"]
            /\ UNCHANGED active_scans
       ELSE /\ loc' = [loc EXCEPT ![s].completed_tasks = @ + 1, ![s].fi = @ + 1]
            /\ active_scans' = [active_scans EXCEPT ![s].progress =
                  Progress(loc[s].completed_tasks + 1, loc[s].total_tasks)]
            /\ UNCHANGED pc
    /\ UNCHANGED <<scan_results, files, now, results, fut_state, work_queue, requests, net, live_net, got, acks, save_calls, last_read, scapy>>

\* WaitDone that leaves the loop without having waited for every future
WaitDoneEarly(s) ==
    /\ pc[s] = "wait"
    /\ pc' = [pc EXCEPT ![s] = "detect"]
    /\ UNCHANGED <<active_scans, scan_results, files, now, results, loc, fut_state, work_queue, requests, net, live_net, got, acks, save_calls, last_read, scapy>>

\* line 109: the loop over futures ends
WaitDone(s) ==
    /\ pc[s] = "wait"
    /\ loc[s].fi > Len(loc[s].futures)
    /\ pc' = [pc EXCEPT ![s] = "detect"]
    /\ UNCHANGED <<active_scans, scan_results, files, now, results, loc, fut_state, work_queue, requests, net, live_net, got, acks, save_calls, last_read, scapy>>

\* line 119: _detect_anomalies
DetectAnomalies(s) ==
    /\ pc[s] = "detect"
    /\ results' = [results EXCEPT ![s] = SetKey(@, "anomalies", Detect(results[s]))]
    /\ pc' = [pc EXCEPT ![s] = "mark"]
    /\ UNCHANGED <<active_scans, scan_results, files, now, loc, fut_state, work_queue, requests, net, live_net, got, acks, save_calls, last_read, scapy>>

\* lines 122-127
MarkCompleted(s) ==
    /\ pc[s] = "mark"
    /\ \E t \in ClockReads :
         /\ now' = t
         /\ results' = [results EXCEPT ![s] =
               SetKey(SetKey(@, "end_time", t), "duration", t - loc[s].start_time)]
         /\ loc' = [loc EXCEPT ![s].end_time = t]
    /\ active_scans' = [active_scans EXCEPT ![s].status = "completed"]
    /\ pc' = [pc EXCEPT ![s] = "set_progress"]
    /\ UNCHANGED <<scan_results, files, fut_state, work_queue, requests, net, live_net, got, acks, save_calls, last_read, scapy>>

\* SetProgress that computes the progress as line 112 does
SetProgressComputed(s) ==
    /\ pc[s] = "set_progress"
    /\ active_scans' = [active_scans EXCEPT ![s].progress =
          Frac(100 * loc[s].completed_tasks, loc[s].total_tasks)]
    /\ pc' = [pc EXCEPT ![s] = "set_end_time"]
    /\ UNCHANGED <<scan_results, files, now, results, loc, fut_state, work_queue, requests, net, live_net, got, acks, save_calls, last_read, scapy>>

\* line 128
SetProgress(s) ==
    /\ pc[s] = "set_progress"
    /\ active_scans' = [active_scans EXCEPT ![s].progress = Hundred]
    /\ pc' = [pc EXCEPT ![s] = "set_end_time"]
    /\ UNCHANGED <<scan_results, files, now, results, loc, fut_state, work_queue, requests, net, live_net, got, acks, save_calls, last_read, scapy>>

\* line 129
SetEndTime(s) ==
    /\ pc[s] = "set_end_time"
    /\ active_scans' = [active_scans EXCEPT ![s] = SetKey(@, "end_time", loc[s].end_time)]
    /\ pc' = [pc EXCEPT ![s] = "set_duration"]
    /\ UNCHANGED <<scan_results, files, now, results, loc, fut_state, work_queue, requests, net, live_net, got, acks, save_calls, last_read, scapy>>

\* line 130
SetDuration(s) ==
    /\ pc[s] = "set_duration"
    /\ active_scans' = [active_scans EXCEPT ![s] =
          SetKey(@, "duration", loc[s].end_time - loc[s].start_time)]
    /\ pc' = [pc EXCEPT ![s] = "store"]
    /\ UNCHANGED <<scan_results, files, now, results, loc, fut_state, work_queue, requests, net, live_net, got, acks, save_calls, last_read, scapy>>

\* StoreResults after which the thread ends without saving
StoreResultsWithoutSave(s) ==
    /\ pc[s] = "store"
    /\ scan_results' = [x \in DOMAIN scan_results \cup {s} |->
                            IF x = s THEN results[s] ELSE scan_results[x]]
    /\ pc' = [pc EXCEPT ![s] = "done"]
    /\ UNCHANGED <<active_scans, files, now, results, loc, fut_state, work_queue, requests, net, live_net, got, acks, save_calls, last_read, scapy>>

\* StoreResults that replaces the registry by one holding only this scan
StoreResultsReplacingRegistry(s) ==
    /\ pc[s] = "store"
    /\ scan_results' = (s :> results[s])
    /\ pc' = [pc EXCEPT ![s] = "save"]
    /\ UNCHANGED <<active_scans, files, now, results, loc, fut_state, work_queue, requests, net, live_net, got, acks, save_calls, last_read, scapy>>

\* line 133
StoreResults(s) ==
    /\ pc[s] = "store"
    /\ scan_results' = [x \in DOMAIN scan_results \cup {s} |->
                            IF x = s THEN results[s] ELSE scan_results[x]]
    /\ pc' = [pc EXCEPT ![s] = "save"]
    /\ UNCHANGED <<active_scans, files, now, results, loc, fut_state, work_queue, requests, net, live_net, got, acks, save_calls, last_read, scapy>>

\* line 136: _save_results writes the file
SaveResults(s) ==
    /\ pc[s] = "save"
    /\ save_calls' = save_calls \cup {s}
    /\ files' = [x \in DOMAIN files \cup {s} |-> IF x = s THEN results[s] ELSE files[x]]
    /\ pc' = [pc EXCEPT ![s] = "done"]
    /\ UNCHANGED <<active_scans, scan_results, now, results, loc, fut_state, work_queue, requests, net, live_net, got, acks, last_read, scapy>>

\* line 136: _save_results raises OSError (open or write fails)
SaveFails(s) ==
    /\ pc[s] = "save"
    /\ save_calls' = save_calls \cup {s}
    /\ loc' = [loc EXCEPT ![s].e = "OSError"]
    /\ pc' = [pc EXCEPT ![s] = "except"]
    /\ UNCHANGED <<active_scans, scan_results, files, now, results, fut_state, work_queue, requests, net, live_net, got, acks, last_read, scapy>>

\* line 144
ExceptStatus(s) ==
    /\ pc[s] = "except"
    /\ active_scans' = [active_scans EXCEPT ![s].status = "error"]
    /\ pc' = [pc EXCEPT ![s] = "except_error"]
    /\ UNCHANGED <<scan_results, files, now, results, loc, fut_state, work_queue, requests, net, live_net, got, acks, save_calls, last_read, scapy>>

\* ExceptError that stores no message
ExceptErrorWithoutMessage(s) ==
    /\ pc[s] = "except_error"
    /\ pc' = [pc EXCEPT ![s] = "done"]
    /\ UNCHANGED <<active_scans, scan_results, files, now, results, loc, fut_state, work_queue, requests, net, live_net, got, acks, save_calls, last_read, scapy>>

\* line 145
ExceptError(s) ==
    /\ pc[s] = "except_error"
    /\ active_scans' = [active_scans EXCEPT ![s] = SetKey(@, "error", loc[s].e)]
    /\ pc' = [pc EXCEPT ![s] = "done"]
    /\ UNCHANGED <<scan_results, files, now, results, loc, fut_state, work_queue, requests, net, live_net, got, acks, save_calls, last_read, scapy>>

(***************************************************************************)
(* The shared ThreadPoolExecutor and the probe tasks (_scan_port).         *)
(***************************************************************************)
\* Running of a pool whose workers are not released when their task ends
RunningNeverReleased == {<<s, k>> \in ScanIds \X (1..MaxTasks + 1) :
               k \in DOMAIN fut_state[s] /\ fut_state[s][k] \in {"running", "finished"}}

\* the tasks the workers of the pool are executing
Running == {<<s, k>> \in ScanIds \X (1..MaxTasks + 1) :
               k \in DOMAIN fut_state[s] /\ fut_state[s][k] = "running"}

\* StartProbe of a pool that starts a thread for every task
StartProbeUnbounded ==
    /\ work_queue # << >>
    /\ LET task == Head(work_queue)
       IN  fut_state' = [fut_state EXCEPT ![task[1]][task[2]] = "running"]
    /\ work_queue' = Tail(work_queue)
    /\ UNCHANGED <<active_scans, scan_results, files, now, pc, results, loc, requests, net, live_net, got, acks, save_calls, last_read, scapy>>

\* a worker takes the oldest queued task
StartProbe ==
    /\ work_queue # << >>
    /\ Cardinality(Running) < MAX_CONCURRENT_SCANS
    /\ LET task == Head(work_queue)
       IN  fut_state' = [fut_state EXCEPT ![task[1]][task[2]] = "running"]
    /\ work_queue' = Tail(work_queue)
    /\ UNCHANGED <<active_scans, scan_results, files, now, pc, results, loc, requests, net, live_net, got, acks, save_calls, last_read, scapy>>

\* WritePortResult that stores nothing when the probe raised
WritePortResultDropsError(res, target, port, reply) ==
    IF reply.kind = "raise" THEN res
    ELSE LET target_data == DictGet(res, target)
         IN  DictSet(res, target,
                     [target_data EXCEPT !.ports = DictSet(@, port, ScanPort(port, reply))])

\* WritePortResult that stores the PortResult under the port of every target
WritePortResultEveryTarget(res, target, port, reply) ==
    [i \in DOMAIN res |->
        <<res[i][1], [res[i][2] EXCEPT !.ports = DictSet(@, port, ScanPort(port, reply))]>>]

\* lines 222 and 227: results['results'][target]['ports'][port] = <PortResult>
WritePortResult(res, target, port, reply) ==
    LET target_data == DictGet(res, target)
    IN  DictSet(res, target,
                [target_data EXCEPT !.ports = DictSet(@, port, ScanPort(port, reply))])

\* _scan_port gets its reply (or raises), stores the PortResult and returns
FinishProbe(s, k) ==
    /\ k \in DOMAIN fut_state[s]
    /\ fut_state[s][k] = "running"
    /\ \E reply \in net :
         /\ results' = [results EXCEPT ![s].results =
               WritePortResult(@, loc[s].futures[k][1], loc[s].futures[k][2], reply)]
         /\ got' = [got EXCEPT ![s] = (k :> reply) @@ @]
         /\ fut_state' = [fut_state EXCEPT ![s][k] = FutureOutcome(reply)]
    /\ UNCHANGED <<active_scans, scan_results, files, now, pc, loc, work_queue, requests, net, live_net, acks, save_calls, last_read, scapy>>

(***************************************************************************)
(* get_scan_status and get_scan_results: reads of the current state.       *)
(***************************************************************************)
GetScanStatus(s) ==
    IF s \in DOMAIN active_scans THEN active_scans[s]
    ELSE IF s \in DOMAIN scan_results
    THEN [status |-> "completed", progress |-> Hundred,
          start_time |-> scan_results[s].start_time,
          end_time |-> GetKey(scan_results[s], "end_time"),
          duration |-> GetKey(scan_results[s], "duration")]
    ELSE IF s \in DOMAIN files
    THEN [status |-> "completed", progress |-> Hundred,
          start_time |-> files[s].start_time,
          end_time |-> GetKey(files[s], "end_time"),
          duration |-> GetKey(files[s], "duration")]
    ELSE None

\* GetScanResults that hands out the results of a scan still in progress
GetScanResultsPartial(s) ==
    IF s \in DOMAIN scan_results THEN scan_results[s]
    ELSE IF s \in DOMAIN results THEN results[s]
    ELSE IF s \in DOMAIN files THEN files[s]
    ELSE None

GetScanResults(s) ==
    IF s \in DOMAIN scan_results THEN scan_results[s]
    ELSE IF s \in DOMAIN files THEN files[s]
    ELSE None

\* the steps of the thread that runs _execute_scan(s)
ExecuteStep(s) ==
    \/ Begin(s)
    \/ Discover(s)
    \/ InitTarget(s)
    \/ Submit(s)
    \/ SubmitFails(s)
    \/ SubmitDone(s)
    \/ Wait(s)
    \/ WaitDone(s)
    \/ DetectAnomalies(s)
    \/ MarkCompleted(s)
    \/ SetProgress(s)
    \/ SetEndTime(s)
    \/ SetDuration(s)
    \/ StoreResults(s)
    \/ SaveResults(s)
    \/ SaveFails(s)
    \/ ExceptStatus(s)
    \/ ExceptError(s)

Next ==
    \/ \E s \in DOMAIN requests : start_scan(s, requests[s].targets, requests[s].ports)
    \/ \E s \in ScanIds : ReturnAck(s)
    \/ \E s \in ScanIds : ExecuteStep(s)
    \/ StartProbe
    \/ \E s \in ScanIds, k \in 1..MaxTasks + 1 : FinishProbe(s, k)

Spec == Init /\ [][Next]_vars

(***************************************************************************)
(* One scan of one target and one port whose probe can get any reply.      *)
(***************************************************************************)
ProbeInit ==
    /\ active_scans = << >>
    /\ scan_results = << >>
    /\ files = << >>
    /\ now = 0
    /\ pc = [s \in ScanIds |-> "idle"]
    /\ results = << >>
    /\ loc = [s \in ScanIds |-> NoLocals]
    /\ fut_state = [s \in ScanIds |-> << >>]
    /\ work_queue = << >>
    /\ \E port \in {80, 8888} :
          requests = ("s1" :> [targets |-> <<"10.0.0.5">>, ports |-> <<port>>])
    /\ net = Replies
    /\ live_net = CheckOutcomes
    /\ got = [s \in ScanIds |-> << >>]
    /\ acks = << >>
    /\ save_calls = {}
    /\ last_read = NoRead
    /\ scapy = NoCall

ProbeSpec == ProbeInit /\ [][Next]_vars

(***************************************************************************)
(* Two scans started together whose probe tasks outnumber the workers of   *)
(* the shared pool.                                                        *)
(***************************************************************************)
PoolInit ==
    /\ active_scans = << >>
    /\ scan_results = << >>
    /\ files = << >>
    /\ now = MaxTime
    /\ pc = [s \in ScanIds |-> "idle"]
    /\ results = << >>
    /\ loc = [s \in ScanIds |-> NoLocals]
    /\ fut_state = [s \in ScanIds |-> << >>]
    /\ work_queue = << >>
    /\ requests = ("s1" :> [targets |-> <<"10.0.0.5">>, ports |-> <<22, 80>>])
                     @@ ("s2" :> [targets |-> <<"8.8.8.8">>, ports |-> <<443, 8080>>])
    /\ net = {Reply("tcp", SYN_ACK)}
    /\ live_net = {"reply"}
    /\ got = [s \in ScanIds |-> << >>]
    /\ acks = << >>
    /\ save_calls = {}
    /\ last_read = NoRead
    /\ scapy = NoCall

PoolSpec == PoolInit /\ [][Next]_vars

\* threads are scheduled fairly: a thread that can take a step takes one, a
\* free worker takes a queued task, and a started probe returns
Fairness ==
    /\ \A s \in ScanIds : WF_vars(ExecuteStep(s))
    /\ WF_vars(StartProbe)
    /\ \A s \in ScanIds, k \in 1..MaxTasks + 1 : WF_vars(FinishProbe(s, k))

FairPoolSpec == PoolInit /\ [][Next]_vars /\ Fairness

(***************************************************************************)
(* Clients that poll one scan, and an id that was never started, through   *)
(* the routes scan_status and scan_results while the scan runs.            *)
(***************************************************************************)
\* the status a client can see for s: that of get_scan_status, "none" without record
SeenStatus(s) == IF GetScanStatus(s) = None THEN "none" ELSE GetScanStatus(s).status

\* the HTTP status of the routes: 404 when the getter returned nothing
RouteCode(ret) == IF ret = None THEN 404 ELSE 200

\* get_scan_status of a defaultdict-like registry: the lookup creates the record
get_scan_status_creating(s) ==
    /\ last_read' = [op |-> "get_scan_status", scan_id |-> s, status |-> SeenStatus(s),
                     ret |-> GetScanStatus(s), code |-> RouteCode(GetScanStatus(s))]
    /\ active_scans' = IF s \in DOMAIN active_scans THEN active_scans
                       ELSE (s :> [status |-> "running", start_time |-> now,
                                   progress |-> Zero, targets |-> << >>, ports |-> << >>,
                                   results |-> << >>]) @@ active_scans
    /\ UNCHANGED <<scan_results, files, now, pc, results, loc, fut_state, work_queue, requests, net, live_net, got, acks, save_calls, scapy>>

\* a client calls get_scan_status(s) through the route scan_status
get_scan_status(s) ==
    /\ last_read' = [op |-> "get_scan_status", scan_id |-> s, status |-> SeenStatus(s),
                     ret |-> GetScanStatus(s), code |-> RouteCode(GetScanStatus(s))]
    /\ UNCHANGED <<active_scans, scan_results, files, now, pc, results, loc, fut_state, work_queue, requests, net, live_net, got, acks, save_calls, scapy>>

\* a client calls get_scan_results(s) through the route scan_results
get_scan_results(s) ==
    /\ last_read' = [op |-> "get_scan_results", scan_id |-> s, status |-> SeenStatus(s),
                     ret |-> GetScanResults(s), code |-> RouteCode(GetScanResults(s))]
    /\ UNCHANGED <<active_scans, scan_results, files, now, pc, results, loc, fut_state, work_queue, requests, net, live_net, got, acks, save_calls, scapy>>

ReadInit ==
    /\ active_scans = << >>
    /\ scan_results = << >>
    /\ files = << >>
    /\ now = 0
    /\ pc = [s \in ScanIds |-> "idle"]
    /\ results = << >>
    /\ loc = [s \in ScanIds |-> NoLocals]
    /\ fut_state = [s \in ScanIds |-> << >>]
    /\ work_queue = << >>
    /\ \E ports \in {<< >>, <<80>>} :
          requests = ("s1" :> [targets |-> <<"10.0.0.5">>, ports |-> ports])
    /\ net = {Raises, Reply("tcp", SYN_ACK)}
    /\ live_net = CheckOutcomes
    /\ got = [s \in ScanIds |-> << >>]
    /\ acks = << >>
    /\ save_calls = {}
    /\ last_read = NoRead
    /\ scapy = NoCall

ReadNext ==
    \/ Next
    \/ \E s \in ScanIds : get_scan_status(s)
    \/ \E s \in ScanIds : get_scan_results(s)

ReadSpec == ReadInit /\ [][ReadNext]_vars

(***************************************************************************)
(* scan_with_scapy called directly (the method scan dispatches to it; the  *)
(* scan lifecycle does not use it): one iteration of its loop per step.    *)
(***************************************************************************)
\* the ports arguments: none, one, two, and a port given twice
ScapyPortLists == {<< >>, <<80>>, <<80, 443>>, <<80, 80>>}

\* ScapyStatus with the rule of _scan_port: mask test, 'closed' otherwise
ScapyStatusAsScanPort(resp) ==
    IF resp.kind = "tcp" /\ BitAnd(resp.flags, SYN_ACK) # 0 THEN "open" ELSE "closed"

\* lines 328-336: the status scan_with_scapy derives from what sr1 returned
ScapyStatus(resp) ==
    IF resp.kind = "tcp"
    THEN IF resp.flags = SYN_ACK THEN "open"
         ELSE IF resp.flags = RST_ACK THEN "closed"
         ELSE "filtered"
    ELSE "filtered"

\* lines 325-336: one iteration of the loop; sr1 returns a reply or None, or
\* raises, which ends the call without a return value
ScapyIterate ==
    /\ scapy.pc = "loop"
    /\ Len(scapy.resps) < Len(scapy.ports)
    /\ LET port == scapy.ports[Len(scapy.resps) + 1]
       IN  \E resp \in net :
             scapy' = IF resp.kind = "raise"
                      THEN [scapy EXCEPT !.pc = "raised", !.resps = Append(@, resp)]
                      ELSE [scapy EXCEPT !.resps = Append(@, resp),
                                         !.results = DictSet(@, port, ScapyStatus(resp))]
    /\ UNCHANGED <<active_scans, scan_results, files, now, pc, results, loc, fut_state, work_queue, requests, net, live_net, got, acks, save_calls, last_read>>

\* line 337: return results
ScapyReturn ==
    /\ scapy.pc = "loop"
    /\ Len(scapy.resps) = Len(scapy.ports)
    /\ scapy' = [scapy EXCEPT !.pc = "returned"]
    /\ UNCHANGED <<active_scans, scan_results, files, now, pc, results, loc, fut_state, work_queue, requests, net, live_net, got, acks, save_calls, last_read>>

ScapyInit ==
    /\ active_scans = << >>
    /\ scan_results = << >>
    /\ files = << >>
    /\ now = 0
    /\ pc = [s \in ScanIds |-> "idle"]
    /\ results = << >>
    /\ loc = [s \in ScanIds |-> NoLocals]
    /\ fut_state = [s \in ScanIds |-> << >>]
    /\ work_queue = << >>
    /\ requests = << >>
    /\ net = Replies
    /\ live_net = CheckOutcomes
    /\ got = [s \in ScanIds |-> << >>]
    /\ acks = << >>
    /\ save_calls = {}
    /\ last_read = NoRead
    /\ \E ports \in ScapyPortLists :
          scapy = [pc |-> "loop", target |-> "10.0.0.5", ports |-> ports,
                   resps |-> << >>, results |-> << >>]

ScapyNext == ScapyIterate \/ ScapyReturn

ScapySpec == ScapyInit /\ [][ScapyNext]_vars

(***************************************************************************)
(* AnomalyDetector.detect applied to the results of two scans whose probes *)
(* have all returned, both with the same results: one to three targets,    *)
(* each with the PortResults of one port list, every port open or closed.  *)
(***************************************************************************)
\* the ports dicts' keys, in insertion order
DetectPortLists ==
    {<< >>, <<22, 2222>>, <<80, 443, 8080>>, <<8080, 80, 443>>, <<21, 22, 23>>,
     <<25, 445, 3389>>, <<3306, 5432>>, <<80, 8080, 8888>>}

\* the port lists given to the targets of a scan of three targets
PatternPortLists == {<<80, 443, 8080>>, <<8080, 80, 443>>, <<80, 443>>}

\* the ports dicts _scan_port can leave for the port lists of lists
PortsDicts(lists) ==
    UNION {{[i \in DOMAIN l |-> <<l[i], ScanPort(l[i], r[i])>>] :
               r \in [DOMAIN l -> {Reply("tcp", SYN_ACK), NoReply}]} : l \in lists}

\* results['results'][target] as line 93 and _scan_port leave it
TargetData(ports) == [status |-> "scanned", ports |-> ports]

DetectInputs ==
    {<< <<"10.0.0.5", TargetData(d)>> >> : d \in PortsDicts(DetectPortLists)}
      \cup {<< <<"10.0.0.5", TargetData(d[1])>>, <<"8.8.8.8", TargetData(d[2])>> >> :
                d \in PortsDicts(DetectPortLists) \X PortsDicts(DetectPortLists)}
      \cup {<< <<"192.168.1.1", TargetData(d[1])>>, <<"10.0.0.5", TargetData(d[2])>>,
               <<"8.8.8.8", TargetData(d[3])>> >> :
                d \in PortsDicts(PatternPortLists) \X PortsDicts(PatternPortLists)
                         \X PortsDicts(PatternPortLists)}

DetectInit ==
    /\ \E input \in DetectInputs :
          LET targets == [i \in DOMAIN input |-> input[i][1]]
          IN  /\ active_scans = [s \in ScanIds |->
                                    [status |-> "running", start_time |-> 0,
                                     progress |-> Hundred, targets |-> targets,
                                     ports |-> << >>, results |-> << >>]]
              /\ results = [s \in ScanIds |->
                               [scan_id |-> s, start_time |-> 0, targets |-> targets,
                                ports |-> << >>, results |-> input]]
    /\ scan_results = << >>
    /\ files = << >>
    /\ now = 0
    /\ pc = [s \in ScanIds |-> "detect"]
    /\ loc = [s \in ScanIds |-> NoLocals]
    /\ fut_state = [s \in ScanIds |-> << >>]
    /\ work_queue = << >>
    /\ requests = << >>
    /\ net = {Reply("tcp", SYN_ACK), NoReply}
    /\ live_net = {"reply"}
    /\ got = [s \in ScanIds |-> << >>]
    /\ acks = << >>
    /\ save_calls = {}
    /\ last_read = NoRead
    /\ scapy = NoCall

DetectNext == \E s \in ScanIds : DetectAnomalies(s)

DetectSpec == DetectInit /\ [][DetectNext]_vars

(***************************************************************************)
(* AnomalyDetector.detect applied to two inputs with the same targets,     *)
(* ports and services and the same open ports, which differ in the status  *)
(* of the ports that are not open.                                         *)
(***************************************************************************)
\* the port lists of the targets of the two inputs
PairPortLists == {<< >>, <<3306, 5432>>, <<21, 22, 23>>, <<80, 443, 8080>>}

\* the statuses a PortResult can have (scan_with_scapy's 'filtered' included)
PortStatuses == {"open", "closed", "filtered", "error"}

\* a PortResult of the given status, as lines 222 and 227-231 build it
PortResultOf(port, status) ==
    IF status = "error"
    THEN [status |-> "error", error |-> StrOfException(Raises), service |-> GuessService(port)]
    ELSE [status |-> status, service |-> GuessService(port)]

\* pairs of ports dicts over one port list with the same open ports: the
\* first has 'open' and 'closed' only, the second any status on non-open ports
PortsDictPairs ==
    UNION {{<<[i \in DOMAIN l |-> <<l[i], PortResultOf(l[i], st[1][i])>>],
              [i \in DOMAIN l |-> <<l[i], PortResultOf(l[i], st[2][i])>>]>> :
               st \in {x \in [DOMAIN l -> {"open", "closed"}] \X [DOMAIN l -> PortStatuses] :
                          \A i \in DOMAIN l : x[1][i] = "open" <=> x[2][i] = "open"}} :
           l \in PairPortLists}

\* pairs of inputs of detect, of one target and of two targets
DetectInputPairs ==
    {<< << <<"10.0.0.5", TargetData(d[1])>> >>, << <<"10.0.0.5", TargetData(d[2])>> >> >> :
        d \in PortsDictPairs}
      \cup {<< << <<"10.0.0.5", TargetData(d[1][1])>>, <<"8.8.8.8", TargetData(d[2][1])>> >>,
               << <<"10.0.0.5", TargetData(d[1][2])>>, <<"8.8.8.8", TargetData(d[2][2])>> >> >> :
                d \in PortsDictPairs \X PortsDictPairs}

DetectPairInit ==
    /\ \E input \in DetectInputPairs :
          LET targets == [i \in DOMAIN input[1] |-> input[1][i][1]]
              inputOf == ("s1" :> input[1]) @@ ("s2" :> input[2])
          IN  /\ active_scans = [s \in ScanIds |->
                                    [status |-> "running", start_time |-> 0,
                                     progress |-> Hundred, targets |-> targets,
                                     ports |-> << >>, results |-> << >>]]
              /\ results = [s \in ScanIds |->
                               [scan_id |-> s, start_time |-> 0, targets |-> targets,
                                ports |-> << >>, results |-> inputOf[s]]]
    /\ scan_results = << >>
    /\ files = << >>
    /\ now = 0
    /\ pc = [s \in ScanIds |-> "detect"]
    /\ loc = [s \in ScanIds |-> NoLocals]
    /\ fut_state = [s \in ScanIds |-> << >>]
    /\ work_queue = << >>
    /\ requests = << >>
    /\ net = {Reply("tcp", SYN_ACK), NoReply}
    /\ live_net = {"reply"}
    /\ got = [s \in ScanIds |-> << >>]
    /\ acks = << >>
    /\ save_calls = {}
    /\ last_read = NoRead
    /\ scapy = NoCall

DetectPairSpec == DetectPairInit /\ [][DetectNext]_vars

(***************************************************************************)
(* One scan of one target and two ports whose probes get a SYN+ACK or an   *)
(* RST+ACK reply.                                                          *)
(***************************************************************************)
EndToEndInit ==
    /\ active_scans = << >>
    /\ scan_results = << >>
    /\ files = << >>
    /\ now = 0
    /\ pc = [s \in ScanIds |-> "idle"]
    /\ results = << >>
    /\ loc = [s \in ScanIds |-> NoLocals]
    /\ fut_state = [s \in ScanIds |-> << >>]
    /\ work_queue = << >>
    /\ \E ports \in {<<22, 80>>, <<21, 23>>} :
          requests = ("s1" :> [targets |-> <<"10.0.0.5">>, ports |-> ports])
    /\ net = {Reply("tcp", SYN_ACK), Reply("tcp", RST_ACK), NoReply}
    /\ live_net = CheckOutcomes
    /\ got = [s \in ScanIds |-> << >>]
    /\ acks = << >>
    /\ save_calls = {}
    /\ last_read = NoRead
    /\ scapy = NoCall

EndToEndSpec == EndToEndInit /\ [][Next]_vars

(***************************************************************************)
(* Properties.                                                             *)
(***************************************************************************)
Status(s) == active_scans[s].status

\* the PortResult stored for (target, port) in the results of scan s
PortResult(s, target, port) == DictGet(DictGet(results[s].results, target).ports, port)

HasPortResult(s, target, port) ==
    /\ DictHas(results[s].results, target)
    /\ DictHas(DictGet(results[s].results, target).ports, port)

\* C1: the status of a scan starts as 'running' and changes at most once, from
\* 'running' to 'completed' or 'error'; a terminal status never changes again.
C1_StatusChangesOnce ==
    [][\A s \in ScanIds :
          /\ (s \notin DOMAIN active_scans /\ s \in DOMAIN active_scans')
                => active_scans'[s].status = "running"
          /\ (s \in DOMAIN active_scans)
                => \/ active_scans'[s].status = active_scans[s].status
                   \/ /\ active_scans[s].status = "running"
                      /\ active_scans'[s].status \in {"completed", "error"}]_vars

\* C2: in every state of a status record, progress == 100 if and only if the
\* status is 'completed'.
C2_ProgressHundredIffCompleted ==
    \A s \in DOMAIN active_scans :
        ProgEq(active_scans[s].progress, Hundred) <=> Status(s) = "completed"

\* C3: when the status is 'completed', every (live target, port) pair has exactly
\* one PortResult, with status open, closed, filtered or error.
C3_EveryScheduledPairHasResult ==
    \A s \in DOMAIN active_scans :
        Status(s) = "completed" =>
            \A t \in Range(loc[s].live_hosts), p \in Range(active_scans[s].ports) :
                /\ HasPortResult(s, t, p)
                /\ LET ports == DictGet(results[s].results, t).ports
                   IN  Cardinality({i \in DOMAIN ports : ports[i][1] = p}) = 1
                /\ PortResult(s, t, p).status \in {"open", "closed", "filtered", "error"}

\* C3 witness: a completed scan one of whose probes failed
C3_Witness ==
    \E s \in DOMAIN active_scans :
        /\ Status(s) = "completed"
        /\ \E k \in DOMAIN got[s] :
              /\ got[s][k] = Raises
              /\ PortResult(s, loc[s].futures[k][1], loc[s].futures[k][2]).status = "error"

\* C4: a probe whose reply has TCP flags RST+ACK (0x14) records 'closed'.
C4_RstAckRecordsClosed ==
    \A s \in DOMAIN results : \A k \in DOMAIN got[s] :
        got[s][k] = Reply("tcp", RST_ACK)
            => PortResult(s, loc[s].futures[k][1], loc[s].futures[k][2]).status = "closed"

\* C5: a probe whose reply has TCP flags SYN+ACK (0x12) records 'open'; a probe
\* without reply before the timeout records the default 'closed'.
C5_SynAckOpenNoReplyClosed ==
    \A s \in DOMAIN results : \A k \in DOMAIN got[s] :
        LET stored == PortResult(s, loc[s].futures[k][1], loc[s].futures[k][2])
        IN  /\ got[s][k] = Reply("tcp", SYN_ACK) => stored.status = "open"
            /\ got[s][k] = NoReply => stored.status = "closed"

\* C5 witness: a finished probe that got SYN+ACK
C5_Witness ==
    \E s \in DOMAIN results : \E k \in DOMAIN got[s] :
        /\ got[s][k] = Reply("tcp", SYN_ACK)
        /\ fut_state[s][k] = "finished"
        /\ PortResult(s, loc[s].futures[k][1], loc[s].futures[k][2]).status = "open"

\* C6: when a scan ends with status 'error', the per-target results collected
\* before the failure remain retrievable, through get_scan_results or through
\* the status record.
C6_PartialResultsPreserved ==
    \A s \in DOMAIN active_scans :
        Status(s) = "error" =>
            \A t \in DictKeys(results[s].results) :
                \/ /\ GetScanResults(s) # None
                   /\ DictHas(GetScanResults(s).results, t)
                \/ DictHas(GetScanStatus(s).results, t)

\* the progress the orchestrating thread has computed last
CurrentProgress(s) ==
    IF loc[s].completed_tasks = 0 THEN Zero
    ELSE Progress(loc[s].completed_tasks, loc[s].total_tasks)

\* C7 (as claimed): for a running scan get_scan_results returns the current,
\* possibly partial, results and not the not-found value.
C7_RunningScanHasResults ==
    \A s \in DOMAIN active_scans :
        Status(s) = "running" =>
            /\ GetScanStatus(s).progress = CurrentProgress(s)
            /\ GetScanResults(s) # None

\* C7 (amended): for a running scan get_scan_status returns the record with the
\* current progress, and get_scan_results returns the not-found value None.
C7_RunningScanNotFound ==
    \A s \in DOMAIN active_scans :
        Status(s) = "running" =>
            /\ GetScanStatus(s) = active_scans[s]
            /\ GetScanStatus(s).progress = CurrentProgress(s)
            /\ GetScanResults(s) = None

\* C7 witness: a running scan with a processed probe and a stored PortResult
C7_Witness ==
    \E s \in DOMAIN active_scans :
        /\ Status(s) = "running"
        /\ loc[s].completed_tasks >= 1
        /\ \E t \in DictKeys(results[s].results) : DictGet(results[s].results, t).ports # << >>
        /\ GetScanResults(s) = None

\* C8: the progress of a scan is always within [0, 100] and never decreases.
C8_ProgressBoundedMonotone ==
    /\ [](\A s \in DOMAIN active_scans :
             /\ ProgLe(Zero, active_scans[s].progress)
             /\ ProgLe(active_scans[s].progress, Hundred))
    /\ [][\A s \in DOMAIN active_scans :
             ProgLe(active_scans[s].progress, active_scans'[s].progress)]_vars

\* C8 witness: progress strictly between 0 and 100 while a later probe has
\* finished before an earlier one
C8_Witness ==
    \E s \in DOMAIN active_scans :
        /\ ~ProgEq(active_scans[s].progress, Zero)
        /\ ~ProgEq(active_scans[s].progress, Hundred)
        /\ \E j, k \in DOMAIN fut_state[s] :
              j < k /\ fut_state[s][j] # "finished" /\ fut_state[s][k] = "finished"

\* C9: a record reported 'completed' has progress == 100 and an end_time with
\* end_time >= start_time; a 'running' record has neither end_time nor duration.
C9_CompletedRecordIsFinal ==
    \A s \in DOMAIN active_scans :
        LET r == GetScanStatus(s)
        IN  /\ r.status = "completed" =>
                 /\ ProgEq(r.progress, Hundred)
                 /\ "end_time" \in DOMAIN r
                 /\ r.end_time >= r.start_time
            /\ r.status = "running" =>
                 /\ "end_time" \notin DOMAIN r
                 /\ "duration" \notin DOMAIN r

\* the targets whose liveness check returned no reply without raising
Excluded(s) ==
    {active_scans[s].targets[i] : i \in {j \in DOMAIN loc[s].checks : loc[s].checks[j] = "noreply"}}

\* C10: every key of results is a target _discover_hosts returned as live, the
\* number of keys is at most len(targets), and no excluded target is a key.
C10_ResultsOnlyLiveHosts ==
    \A s \in DOMAIN results :
        /\ DictKeys(results[s].results) \subseteq Range(loc[s].live_hosts)
        /\ Len(results[s].results) <= Len(active_scans[s].targets)
        /\ DictKeys(results[s].results) \cap Excluded(s) = {}

\* C10 witness: a completed scan with a scanned target and an excluded target
C10_Witness ==
    \E s \in DOMAIN results :
        /\ Status(s) = "completed"
        /\ DictKeys(results[s].results) # {}
        /\ Excluded(s) # {}

\* the positions of _execute_scan after the loop over futures has ended normally
AfterWait == {"detect", "mark", "set_progress", "set_end_time", "set_duration",
              "store", "save"}

\* the exceptions the steps of _execute_scan itself raise in the model
OrchestrationErrors == {"can't start new thread", "OSError"}

\* the futures of scan s that belong to the pair of future k
SamePair(s, k) == {j \in DOMAIN loc[s].futures : loc[s].futures[j] = loc[s].futures[k]}

\* C11: a probe that raises never aborts its scan: whatever probes fail, the
\* exception handler of the scan is entered only for a failure of the scan's
\* own steps, each pair whose probes failed is recorded with status 'error',
\* and failing probes count in completed_tasks, so that every submitted pair
\* has been counted when the loop over the futures ends.
C11_ProbeFailureNeverAborts ==
    \A s \in DOMAIN results :
        /\ (pc[s] \in {"except", "except_error"} \/ Status(s) = "error")
               => loc[s].e \in OrchestrationErrors
        /\ \A k \in DOMAIN got[s] :
               (\A j \in SamePair(s, k) : j \in DOMAIN got[s] => got[s][j].kind = "raise")
                  => PortResult(s, loc[s].futures[k][1], loc[s].futures[k][2]).status = "error"
        /\ loc[s].completed_tasks = loc[s].fi - 1
        /\ \A k \in 1..loc[s].completed_tasks : k \in DOMAIN got[s]
        /\ (pc[s] \in AfterWait \/ Status(s) = "completed")
               => /\ loc[s].completed_tasks = Len(loc[s].futures)
                  /\ loc[s].futures # << >>
                        => ProgLe(Progress(loc[s].completed_tasks, loc[s].total_tasks),
                                  active_scans[s].progress)

\* C11 witness: a completed scan of several pairs all of whose probes raised
C11_Witness ==
    \E s \in DOMAIN results :
        /\ Status(s) = "completed"
        /\ Len(loc[s].futures) >= 2
        /\ loc[s].completed_tasks = Len(loc[s].futures)
        /\ \A k \in DOMAIN loc[s].futures :
              /\ k \in DOMAIN got[s]
              /\ got[s][k] = Raises
              /\ PortResult(s, loc[s].futures[k][1], loc[s].futures[k][2]).status = "error"

\* C12: _scan_port never propagates an exception to its caller: when sending
\* or receiving raises, the task still returns, and the PortResult of its pair
\* has status 'error', the text of the exception as error, and the service of
\* the static port table, or 'Unknown (<port>)' for a port not in the table.
C12_ProbeErrorIsRecorded ==
    \A s \in DOMAIN results : \A k \in DOMAIN got[s] :
        got[s][k].kind = "raise" =>
            LET port == loc[s].futures[k][2]
                stored == PortResult(s, loc[s].futures[k][1], port)
            IN  /\ fut_state[s][k] = "finished"
                /\ loc[s].e \in OrchestrationErrors \cup {""}
                /\ DOMAIN stored = {"status", "error", "service"}
                /\ stored.status = "error"
                /\ got[s][k] = Raises => stored.error = "[Errno 1] Operation not permitted"
                /\ got[s][k] = RaisesUnreachable
                      => stored.error = "[Errno 101] Network is unreachable"
                /\ port = 80 => stored.service = "HTTP"
                /\ port = 8888 => stored.service = "Unknown (8888)"

\* C12 witness: the probe of a port outside the table raised and its scan went on
C12_Witness ==
    \E s \in DOMAIN results : \E k \in DOMAIN got[s] :
        /\ got[s][k] = RaisesUnreachable
        /\ loc[s].futures[k][2] = 8888
        /\ PortResult(s, loc[s].futures[k][1], 8888).service = "Unknown (8888)"
        /\ loc[s].completed_tasks = 1

\* C13: an exception raised in the background execution after start_scan has
\* created the record is caught by the handler of _execute_scan: the thread
\* ends, with a record of status 'error' whose error is the text of the
\* exception, and a record has an error field only when its status is 'error'.
C13_BackgroundErrorIsCaught ==
    \A s \in DOMAIN active_scans :
        /\ "error" \in DOMAIN active_scans[s] => Status(s) = "error"
        /\ (pc[s] = "done" /\ loc[s].e # "")
              => /\ Status(s) = "error"
                 /\ "error" \in DOMAIN active_scans[s]
                 /\ active_scans[s].error = loc[s].e
                 /\ active_scans[s].error \in OrchestrationErrors
        /\ (pc[s] = "done" /\ loc[s].e = "") => Status(s) = "completed"
        /\ s \in DOMAIN acks => acks[s].status = "running"

\* C13 witness: the execution of an acknowledged scan ended after a task
\* could not be submitted
C13_Witness ==
    \E s \in DOMAIN active_scans :
        /\ s \in DOMAIN acks
        /\ pc[s] = "done"
        /\ loc[s].e = "can't start new thread"
        /\ active_scans[s].status = "error"
        /\ active_scans[s].error = "can't start new thread"

\* C14: with fair scheduling, and every liveness check and every probe
\* returning, every scan started by start_scan eventually has status
\* 'completed' or 'error', also when two scans run at the same time and submit
\* more probe tasks than the shared pool has workers.
C14_EveryScanTerminates ==
    \A s \in ScanIds :
        (s \in DOMAIN active_scans)
            ~> (s \in DOMAIN active_scans /\ Status(s) \in {"completed", "error"})

\* C14 witness: both scans are completed after their tasks outnumbered the workers
C14_Witness ==
    /\ \A s \in ScanIds : s \in DOMAIN active_scans /\ Status(s) = "completed"
    /\ Len(loc["s1"].futures) + Len(loc["s2"].futures) > MAX_CONCURRENT_SCANS
    /\ \A s \in ScanIds : loc[s].completed_tasks = Len(loc[s].futures)

\* C16: at every moment the number of _scan_port probes executing, over all
\* the scans of the scanner, is at most MAX_CONCURRENT_SCANS, the size of the
\* one shared pool.
C16_ProbesBoundedByPool ==
    /\ Cardinality(Running) <= MAX_CONCURRENT_SCANS
    /\ Cardinality({<<s, k>> \in ScanIds \X (1..MaxTasks + 1) :
                       k \in DOMAIN fut_state[s] /\ fut_state[s][k] = "running"})
          <= MAX_CONCURRENT_SCANS

\* C16 witness: probes of both scans fill the pool while further tasks are queued
C16_Witness ==
    /\ Cardinality(Running) = MAX_CONCURRENT_SCANS
    /\ work_queue # << >>
    /\ \A s \in ScanIds : \E k \in DOMAIN fut_state[s] : <<s, k>> \in Running
    /\ \A s \in ScanIds : s \in DOMAIN active_scans /\ Status(s) = "running"

\* start_scan has created the record of s and started its thread
Scheduled(s) ==
    /\ s \notin DOMAIN active_scans
    /\ s \in DOMAIN active_scans'
    /\ active_scans'[s].status = "running"
    /\ pc'[s] = "begin"

\* C15 (as claimed): start_scan creates the record with status 'running' and
\* schedules the execution, and it returns its acknowledgement before the
\* execution of that scan completes.
C15_AckBeforeExecutionCompletes ==
    /\ [][\A s \in ScanIds :
             (s \notin DOMAIN active_scans /\ s \in DOMAIN active_scans') => Scheduled(s)]_vars
    /\ [](\A s \in DOMAIN active_scans : s \notin DOMAIN acks => pc[s] # "done")

\* C15 (amended): start_scan creates the record with status 'running' and
\* schedules the execution, and it returns its acknowledgement without waiting
\* for the execution: wherever the execution stands, start_scan can return,
\* and what it returns is the 'running' acknowledgement of its arguments.
C15_AckWithoutWaiting ==
    /\ [][\A s \in ScanIds :
             (s \notin DOMAIN active_scans /\ s \in DOMAIN active_scans') => Scheduled(s)]_vars
    /\ [](\A s \in DOMAIN active_scans :
             /\ s \notin DOMAIN acks => ENABLED ReturnAck(s)
             /\ s \in DOMAIN acks =>
                   acks[s] = [scan_id |-> s, status |-> "running",
                              targets |-> active_scans[s].targets,
                              ports |-> active_scans[s].ports])

\* C15 witness: the acknowledgement has been returned and the execution is
\* waiting for its probes
C15_Witness ==
    \E s \in DOMAIN acks :
        /\ acks[s].status = "running"
        /\ pc[s] = "wait"
        /\ Status(s) = "running"
        /\ \E k \in DOMAIN fut_state[s] : fut_state[s][k] = "running"

\* the status of s has been 'completed': lines 122-127 have been executed
WasCompleted(s) == s \in DOMAIN results /\ "end_time" \in DOMAIN results[s]

C18_TerminalRecordsFrozen ==
    [][\A s \in DOMAIN active_scans :
          Status(s) \in {"completed", "error"}
             => /\ active_scans'[s] = active_scans[s]
                /\ results'[s] = results[s]]_vars

\* C19: get_scan_status and get_scan_results change neither the registries
\* nor any record, and two consecutive get_scan_results calls on a completed
\* scan return equal data.
C19_ReadsChangeNothingAndRepeat ==
    /\ [][last_read' # last_read
            => UNCHANGED <<active_scans, scan_results, files, results>>]_vars
    /\ [][(/\ last_read.op = "get_scan_results"
           /\ last_read'.op = "get_scan_results"
           /\ last_read'.scan_id = last_read.scan_id
           /\ last_read.status = "completed")
            => last_read'.ret = last_read.ret]_vars

\* s was never started and has no saved result file
Unknown(s) ==
    /\ s \notin DOMAIN active_scans
    /\ s \notin DOMAIN scan_results
    /\ s \notin DOMAIN files

\* C20: for a scan id that was never started and has no saved result file,
\* get_scan_status and get_scan_results both return None (the routes answer
\* 404), and the call creates no record for the id.
C20_UnknownScanNotFound ==
    /\ [](\A s \in ScanIds :
             Unknown(s) => GetScanStatus(s) = None /\ GetScanResults(s) = None)
    /\ [][\A s \in ScanIds :
             (Unknown(s) /\ last_read' # last_read /\ last_read'.scan_id = s)
                => /\ last_read'.ret = None
                   /\ last_read'.code = 404
                   /\ Unknown(s)'
                   /\ UNCHANGED <<active_scans, scan_results, files, results>>]_vars

\* C20 witness: get_scan_results has been asked for an id that was never
\* started, while another scan has its results stored and saved
C20_Witness ==
    /\ Unknown("s2")
    /\ last_read.op = "get_scan_results"
    /\ last_read.scan_id = "s2"
    /\ last_read.ret = None
    /\ "s1" \in DOMAIN scan_results
    /\ "s1" \in DOMAIN files

\* the targets of scan s whose liveness check had one of the given outcomes,
\* in the order of the request
TargetsWithOutcome(s, outcomes) ==
    LET idx == SelectSeq([i \in DOMAIN loc[s].checks |-> i],
                         LAMBDA i : loc[s].checks[i] \in outcomes)
    IN  [j \in DOMAIN idx |-> active_scans[s].targets[idx[j]]]

Detected == {s \in DOMAIN results : "anomalies" \in DOMAIN results[s]}

\* the findings of one type among the anomalies of scan s
Findings(s, type) == SelectSeq(results[s].anomalies, LAMBDA f : f.type = type)

\* the ports recorded 'open' for the i-th target of the results of scan s
OpenOn(s, i) ==
    LET ports == results[s].results[i][2].ports
    IN  {ports[j][1] : j \in {k \in DOMAIN ports : ports[k][2].status = "open"}}

\* the four suspicious port sets
SuspiciousSets == {{22, 2222}, {80, 8080, 8888}, {21, 22, 23}, {3306, 5432}}

\* C22: for every target and each of the four suspicious port sets, detect
\* emits exactly one unusual_port_combination finding, of severity medium
\* and naming the matching ports, when at least 2 ports of the set are open
\* on that target, and none otherwise.
C22_PortCombinationFindings ==
    \A s \in Detected :
        LET found == Findings(s, "unusual_port_combination")
        IN  /\ \A i \in DOMAIN results[s].results : \A set \in SuspiciousSets :
                  LET mine == {k \in DOMAIN found :
                                  /\ found[k].target = results[s].results[i][1]
                                  /\ Range(found[k].ports) \subseteq set}
                  IN  IF Cardinality(set \cap OpenOn(s, i)) >= 2
                      THEN /\ Cardinality(mine) = 1
                           /\ \A k \in mine :
                                 /\ Range(found[k].ports) = set \cap OpenOn(s, i)
                                 /\ Len(found[k].ports) = Cardinality(set \cap OpenOn(s, i))
                                 /\ found[k].severity = "medium"
                      ELSE mine = {}
            /\ \A k \in DOMAIN found :
                  /\ found[k].target \in DictKeys(results[s].results)
                  /\ \E set \in SuspiciousSets : Range(found[k].ports) \subseteq set
            /\ \A i \in DOMAIN results[s].results :
                  LET mine == {k \in DOMAIN found : found[k].target = results[s].results[i][1]}
                  IN  /\ OpenOn(s, i) = {22, 2222}
                          => /\ Cardinality(mine) = 1
                             /\ \A k \in mine : Range(found[k].ports) = {22, 2222}
                      /\ OpenOn(s, i) = {22} => mine = {}

\* C22 witness: detect has returned for two targets, one with exactly 22 and
\* 2222 open and a finding, one with only 80 and 8080 of its three ports open
C22_Witness ==
    \E s \in Detected :
        /\ Len(results[s].results) = 2
        /\ OpenOn(s, 1) = {22, 2222}
        /\ OpenOn(s, 2) = {80, 8080}
        /\ Len(Findings(s, "unusual_port_combination")) = 2

\* the indices of the targets of scan s whose set of open ports is ports
Group(s, ports) == {i \in DOMAIN results[s].results : OpenOn(s, i) = ports}

\* the targets at the given indices of the results of scan s
TargetsAt(s, idx) == {results[s].results[i][1] : i \in idx}

\* C23: detect emits exactly one identical_port_pattern finding, of severity
\* low, for every group of more than one target whose sets of open ports are
\* equal and have more than 2 ports, listing all targets of the group and the
\* shared ports, and none for any other group.
C23_IdenticalPatternFindings ==
    \A s \in Detected :
        LET found == Findings(s, "identical_port_pattern")
        IN  /\ \A i \in DOMAIN results[s].results :
                  LET ports == OpenOn(s, i)
                      mine == {k \in DOMAIN found : Range(found[k].ports) = ports}
                  IN  IF Cardinality(Group(s, ports)) > 1 /\ Cardinality(ports) > 2
                      THEN /\ Cardinality(mine) = 1
                           /\ \A k \in mine :
                                 /\ Range(found[k].targets) = TargetsAt(s, Group(s, ports))
                                 /\ Len(found[k].targets) = Cardinality(Group(s, ports))
                                 /\ Len(found[k].ports) = Cardinality(ports)
                                 /\ found[k].severity = "low"
                      ELSE mine = {}
            /\ \A k \in DOMAIN found :
                  \E i \in DOMAIN results[s].results : OpenOn(s, i) = Range(found[k].ports)
            /\ (\A i \in DOMAIN results[s].results : OpenOn(s, i) = {80, 443, 8080})
                  => (Len(results[s].results) = 3
                        => /\ Len(found) = 1
                           /\ Range(found[1].targets) = DictKeys(results[s].results))
            /\ (\A i \in DOMAIN results[s].results : OpenOn(s, i) = {80, 443})
                  => found = << >>

\* C23 witness: three targets with 80, 443 and 8080 open, stored in different
\* orders, and one finding that lists the three
C23_Witness ==
    \E s \in Detected :
        /\ Len(results[s].results) = 3
        /\ \A i \in 1..3 : OpenOn(s, i) = {80, 443, 8080}
        /\ results[s].results[1][2].ports[1][1] = 80
        /\ results[s].results[2][2].ports[1][1] = 8080
        /\ Len(Findings(s, "identical_port_pattern")) = 1
        /\ Findings(s, "identical_port_pattern")[1].targets
              = <<"192.168.1.1", "10.0.0.5", "8.8.8.8">>
        /\ Findings(s, "identical_port_pattern")[1].ports = <<80, 443, 8080>>

\* the severity of the table of known vulnerable services, by port
VulnerableSeverity ==
    (21 :> "high") @@ (23 :> "high") @@ (25 :> "medium") @@ (445 :> "high")
       @@ (3389 :> "medium")

\* the potential_vulnerability findings of each (target, port) pair: one, of
\* the severity of the table, for an open port of the table, none otherwise
VulnerabilityFindingsPerPair ==
    \A s \in Detected :
        LET found == Findings(s, "potential_vulnerability")
        IN  \A i \in DOMAIN results[s].results :
              LET ports == results[s].results[i][2].ports
              IN  \A j \in DOMAIN ports :
                    LET mine == {k \in DOMAIN found :
                                    /\ found[k].target = results[s].results[i][1]
                                    /\ found[k].port = ports[j][1]}
                    IN  IF ports[j][2].status = "open"
                             /\ ports[j][1] \in {21, 23, 25, 445, 3389}
                        THEN /\ Cardinality(mine) = 1
                             /\ \A k \in mine :
                                   found[k].severity = VulnerableSeverity[ports[j][1]]
                        ELSE mine = {}

\* every potential_vulnerability finding is about a port of a target of the results
VulnerabilityFindingsAreAboutPorts ==
    \A s \in Detected :
        \A k \in DOMAIN Findings(s, "potential_vulnerability") :
            LET f == Findings(s, "potential_vulnerability")[k]
            IN  /\ DictHas(results[s].results, f.target)
                /\ DictHas(DictGet(results[s].results, f.target).ports, f.port)

\* C24: detect emits exactly one potential_vulnerability finding for every
\* (target, port) pair whose port is open and is one of 21, 23, 25, 445, 3389,
\* with severity high for 21, 23 and 445 and medium for 25 and 3389, and none
\* for any other port or for a port that is not open.
C24_VulnerabilityFindings ==
    VulnerabilityFindingsPerPair /\ VulnerabilityFindingsAreAboutPorts

\* C24 witness: 25 and 3389 open and 445 closed on one target, 21 open on another
C24_Witness ==
    \E s \in Detected :
        /\ Len(results[s].results) = 2
        /\ OpenOn(s, 1) = {25, 3389}
        /\ OpenOn(s, 2) = {21}
        /\ Len(Findings(s, "potential_vulnerability")) = 3
        /\ Findings(s, "potential_vulnerability")[1].severity = "medium"
        /\ Findings(s, "potential_vulnerability")[3].severity = "high"

EndedNormally(s) == pc[s] = "done" /\ loc[s].e = ""

\* C26: a scan of one live target with ports [22, 80], where the probe of 22
\* gets an RST+ACK reply and the probe of 80 a SYN+ACK reply, ends with status
\* 'completed', progress 100, port 22 recorded 'closed', port 80 recorded
\* 'open', and an empty anomalies list.
C26_EndToEndClosedAndOpen ==
    \A s \in DOMAIN results :
        (/\ EndedNormally(s)
         /\ loc[s].live_hosts = <<"10.0.0.5">>
         /\ active_scans[s].ports = <<22, 80>>
         /\ got[s] = <<Reply("tcp", RST_ACK), Reply("tcp", SYN_ACK)>>)
            => /\ Status(s) = "completed"
               /\ ProgEq(active_scans[s].progress, Hundred)
               /\ PortResult(s, "10.0.0.5", 22).status = "closed"
               /\ PortResult(s, "10.0.0.5", 80).status = "open"
               /\ results[s].anomalies = << >>

\* C27: a completed scan of one live target with ports [21, 23], both open,
\* has anomalies with exactly two potential_vulnerability findings, each of
\* severity high (ports 21 and 23), and one unusual_port_combination finding
\* for the set {21, 22, 23} naming ports 21 and 23.
C27_EndToEndFtpAndTelnet ==
    \A s \in DOMAIN results :
        (/\ "anomalies" \in DOMAIN results[s]
         /\ loc[s].live_hosts = <<"10.0.0.5">>
         /\ active_scans[s].ports = <<21, 23>>
         /\ PortResult(s, "10.0.0.5", 21).status = "open"
         /\ PortResult(s, "10.0.0.5", 23).status = "open")
            => LET vulns == Findings(s, "potential_vulnerability")
                   combos == Findings(s, "unusual_port_combination")
               IN  /\ Len(vulns) = 2
                   /\ {vulns[k].port : k \in DOMAIN vulns} = {21, 23}
                   /\ \A k \in DOMAIN vulns :
                         vulns[k].severity = "high" /\ vulns[k].target = "10.0.0.5"
                   /\ Len(combos) = 1
                   /\ combos[1].ports = <<21, 23>>
                   /\ combos[1].description = "Multiple remote access services"
                   /\ combos[1].target = "10.0.0.5"
                   /\ Len(results[s].anomalies) = 3
                   /\ s \in DOMAIN scan_results
                         => scan_results[s].anomalies = results[s].anomalies

\* C27 witness: the scan of ports 21 and 23, both answered by SYN+ACK, is
\* completed and stored with its three findings
C27_Witness ==
    \E s \in DOMAIN scan_results :
        /\ EndedNormally(s)
        /\ Status(s) = "completed"
        /\ active_scans[s].ports = <<21, 23>>
        /\ got[s] = <<Reply("tcp", SYN_ACK), Reply("tcp", SYN_ACK)>>
        /\ Len(scan_results[s].anomalies) = 3

\* C28: after the orchestrator has processed the k-th probe completion of a
\* scan, the progress of the status record is 100 * k / (liveHostCount *
\* len(ports)); when all probes have been processed the progress is 100, also
\* when discovery excluded some of the requested targets.
C28_ProgressOverLiveHosts ==
    \A s \in DOMAIN results :
        (pc[s] \in {"wait", "detect", "mark"} /\ loc[s].completed_tasks >= 1)
            => /\ ProgEq(active_scans[s].progress,
                         Frac(100 * loc[s].completed_tasks,
                              Len(loc[s].live_hosts) * Len(active_scans[s].ports)))
               /\ loc[s].completed_tasks = Len(loc[s].futures)
                     => ProgEq(active_scans[s].progress, Hundred)

\* the positions of _execute_scan from which line 119 can still be reached
BeforeDetectionEnds == {"begin", "discover", "submit", "wait", "detect"}

\* C29: within one scan, no probe starts before _discover_hosts has returned
\* for all targets, anomaly detection starts only after every probe task
\* submitted for the scan has finished, and the anomalies are written once.
C29_PhasesInOrder ==
    /\ [](\A s \in DOMAIN results :
             /\ fut_state[s] # << >>
                   => /\ pc[s] # "discover"
                      /\ Len(loc[s].checks) = Len(active_scans[s].targets)
             /\ (pc[s] = "detect" \/ "anomalies" \in DOMAIN results[s])
                   => /\ Len(fut_state[s]) = Len(loc[s].futures)
                      /\ \A k \in DOMAIN fut_state[s] : fut_state[s][k] = "finished"
                      /\ \A t \in Range(loc[s].live_hosts), p \in Range(active_scans[s].ports) :
                            HasPortResult(s, t, p)
             /\ "anomalies" \in DOMAIN results[s] => pc[s] \notin BeforeDetectionEnds
             /\ EndedNormally(s) => "anomalies" \in DOMAIN results[s])
    /\ [][\A s \in DOMAIN results :
             /\ "anomalies" \in DOMAIN results[s]
                   => /\ "anomalies" \in DOMAIN results'[s]
                      /\ results'[s].anomalies = results[s].anomalies
             /\ ("anomalies" \notin DOMAIN results[s] /\ "anomalies" \in DOMAIN results'[s])
                   => pc[s] = "detect" /\ pc'[s] = "mark"]_vars

\* C29 witness: detection has found anomalies after two probes of the scan,
\* started after the discovery of two targets, had finished
C29_Witness ==
    \E s \in DOMAIN results :
        /\ "anomalies" \in DOMAIN results[s]
        /\ results[s].anomalies # << >>
        /\ Len(loc[s].checks) = 2
        /\ Len(loc[s].futures) >= 2
        /\ \A k \in DOMAIN fut_state[s] : fut_state[s][k] = "finished"

\* C30: a finished probe records 'open' only when its reply is a TCP segment
\* with both SYN and ACK set; a TCP reply with any other flag combination and
\* a reply without TCP layer record the default 'closed'.
C30_OpenOnlyOnSynAndAck ==
    \A s \in DOMAIN results : \A k \in DOMAIN got[s] :
        fut_state[s][k] = "finished" =>
            LET stored == PortResult(s, loc[s].futures[k][1], loc[s].futures[k][2])
                reply  == got[s][k]
                synAck == reply.kind = "tcp" /\ BitAnd(reply.flags, SYN_ACK) = SYN_ACK
            IN  /\ stored.status = "open" => synAck
                /\ (reply.kind = "tcp" /\ ~synAck) => stored.status = "closed"
                /\ reply.kind = "nontcp" => stored.status = "closed"

\* discovery of scan s has returned, and it returned no live host or the scan
\* has no ports: the loops of lines 92-106 submit nothing
NothingToProbe(s) ==
    /\ s \in DOMAIN results
    /\ pc[s] \notin {"begin", "discover"}
    /\ loc[s].live_hosts = << >> \/ active_scans[s].ports = << >>

\* the positions of _execute_scan after line 128
AfterSetProgress == {"set_end_time", "set_duration", "store", "save"}

\* C31: when discovery returns no live host or ports is empty, no probe task
\* is submitted, nothing is divided (line 112 is not reached, and no stored
\* progress has a zero denominator), detection writes an empty anomalies
\* list, and the scan gets status 'completed' with progress 100; the handler
\* of lines 143-145 is entered only when _save_results fails afterwards.
C31_NothingToProbeCompletes ==
    \A s \in DOMAIN active_scans :
        /\ active_scans[s].progress.den # 0
        /\ (pc[s] = "wait" /\ loc[s].fi <= Len(loc[s].futures)) => loc[s].total_tasks > 0
        /\ NothingToProbe(s) =>
              /\ loc[s].futures = << >> /\ fut_state[s] = << >> /\ got[s] = << >>
              /\ \A i \in DOMAIN work_queue : work_queue[i][1] # s
              /\ \A i \in DOMAIN results[s].results : results[s].results[i][2].ports = << >>
              /\ loc[s].completed_tasks = 0
              /\ "anomalies" \in DOMAIN results[s] => results[s].anomalies = << >>
              /\ (pc[s] \in {"except", "except_error"} \/ Status(s) = "error" \/ loc[s].e # "")
                    => loc[s].e = "OSError" /\ s \in save_calls /\ WasCompleted(s)
              /\ pc[s] \in {"submit", "wait", "detect", "mark"}
                    => Status(s) = "running" /\ ProgEq(active_scans[s].progress, Zero)
              /\ (pc[s] \in AfterSetProgress \/ EndedNormally(s))
                    => /\ Status(s) = "completed"
                       /\ ProgEq(active_scans[s].progress, Hundred)
                       /\ results[s].anomalies = << >>

\* C31 witness: a scan of a live host without ports has ended as 'completed'
\* with progress 100, its total_tasks being zero
C31_Witness ==
    \E s \in DOMAIN active_scans :
        /\ NothingToProbe(s)
        /\ EndedNormally(s)
        /\ loc[s].live_hosts # << >>
        /\ loc[s].total_tasks = 0
        /\ Status(s) = "completed"
        /\ active_scans[s].progress = Hundred

\* a list without a repeated element
NoDuplicates(sq) == \A i, j \in DOMAIN sq : sq[i] = sq[j] => i = j

\* results['results'][target]['ports'][port] of a results record, None when absent
PortEntry(r, target, port) ==
    IF DictHas(r.results, target) /\ DictHas(DictGet(r.results, target).ports, port)
    THEN DictGet(DictGet(r.results, target).ports, port)
    ELSE None

\* the keys results['results'][target]['ports'][port] present in scan s
WrittenKeys(s) ==
    {<<t, p>> \in Range(active_scans[s].targets) \X Range(active_scans[s].ports) :
        HasPortResult(s, t, p)}

\* the probe tasks of scan s that have stored their PortResult and returned
FinishedTasks(s) == {k \in DOMAIN fut_state[s] : fut_state[s][k] = "finished"}

\* scan s was requested with targets and with ports free of duplicates
DuplicateFree(s) ==
    NoDuplicates(active_scans[s].targets) /\ NoDuplicates(active_scans[s].ports)

\* C32: in a scan whose targets and ports are each free of duplicates, every
\* key results[target].ports[port] is written exactly once, by the one probe
\* task submitted for that pair (no key changes once written, and there are
\* as many keys as finished tasks), and completed_tasks and the progress are
\* changed only by steps of the scan's own orchestrating thread.
C32_EachKeyWrittenOnce ==
    /\ [](\A s \in DOMAIN results :
             DuplicateFree(s) =>
                /\ NoDuplicates(loc[s].futures)
                /\ Cardinality(WrittenKeys(s)) = Cardinality(FinishedTasks(s))
                /\ \A k \in FinishedTasks(s) :
                      <<loc[s].futures[k][1], loc[s].futures[k][2]>> \in WrittenKeys(s)
                /\ pc[s] \in AfterWait
                      => WrittenKeys(s) = Range(loc[s].live_hosts) \X Range(active_scans[s].ports))
    /\ [][\A s \in DOMAIN results :
             /\ DuplicateFree(s) =>
                   \A t \in Range(active_scans[s].targets), p \in Range(active_scans[s].ports) :
                       PortEntry(results'[s], t, p) # PortEntry(results[s], t, p)
                          => /\ PortEntry(results[s], t, p) = None
                             /\ \E k \in DOMAIN loc[s].futures :
                                   /\ loc[s].futures[k] = <<t, p>>
                                   /\ \A j \in DOMAIN loc[s].futures :
                                         loc[s].futures[j] = <<t, p>> => j = k
                                   /\ FinishProbe(s, k)
             /\ (loc'[s].completed_tasks # loc[s].completed_tasks
                    \/ active_scans'[s].progress # active_scans[s].progress)
                   => /\ ExecuteStep(s)
                      /\ results' = results /\ fut_state' = fut_state]_vars

\* C32 witness: every pair of a duplicate-free scan of two live hosts and two
\* ports has been written by its task, and the orchestrator has counted them
C32_Witness ==
    \E s \in DOMAIN results :
        /\ DuplicateFree(s)
        /\ Len(loc[s].live_hosts) = 2
        /\ Len(active_scans[s].ports) = 2
        /\ Cardinality(WrittenKeys(s)) = 4
        /\ loc[s].completed_tasks = 4

\* the step is one of scan s: of its orchestrating thread or of one of its probes
StepOfScan(s) ==
    \/ ExecuteStep(s)
    \/ \E k \in DOMAIN fut_state[s] : FinishProbe(s, k)

\* the entry of id s in a registry (a dict keyed by scan id), None when absent
Entry(registry, s) == IF s \in DOMAIN registry THEN registry[s] ELSE None

\* C33: with distinct scan ids, a step that changes the status record or a
\* results record of a scan is a step of that scan's own execution, whatever
\* the interleaving of the running scans; a record is inserted into
\* active_scans only by start_scan of its id, once (the id is not started
\* again), into scan_results only by its own line 133, and is never removed.
C33_ScansAreIsolated ==
    [][\A s \in ScanIds :
          /\ Entry(active_scans', s) # Entry(active_scans, s)
                => IF s \in DOMAIN active_scans
                   THEN ExecuteStep(s) /\ s \in DOMAIN active_scans'
                   ELSE /\ s \in DOMAIN requests
                        /\ start_scan(s, requests[s].targets, requests[s].ports)
          /\ s \in DOMAIN active_scans
                => ~ (s \in DOMAIN requests
                        /\ ENABLED start_scan(s, requests[s].targets, requests[s].ports))
          /\ Entry(results', s) # Entry(results, s)
                => StepOfScan(s) /\ s \in DOMAIN results'
          /\ Entry(scan_results', s) # Entry(scan_results, s)
                => /\ StoreResults(s)
                   /\ s \notin DOMAIN scan_results
          /\ StepOfScan(s)
                => \A o \in ScanIds \ {s} :
                      /\ Entry(active_scans', o) = Entry(active_scans, o)
                      /\ Entry(results', o) = Entry(results, o)
                      /\ Entry(scan_results', o) = Entry(scan_results, o)
                      /\ loc'[o] = loc[o] /\ pc'[o] = pc[o]]_vars

\* C33 witness: one scan has completed and is stored while the other scan is
\* still running with some of its ports written
C33_Witness ==
    /\ "s1" \in DOMAIN scan_results
    /\ "s2" \in DOMAIN results
    /\ Status("s1") = "completed"
    /\ Status("s2") = "running"
    /\ WrittenKeys("s2") # {}
    /\ pc["s2"] = "wait"

\* the last of the replies scan_with_scapy got for a port
LastReplyFor(port) ==
    scapy.resps[CHOOSE i \in DOMAIN scapy.resps :
                   /\ scapy.ports[i] = port
                   /\ \A j \in DOMAIN scapy.resps : scapy.ports[j] = port => j <= i]

\* C34: what scan_with_scapy returns has exactly one entry per requested
\* port: 'open' when the flags of the port's reply are exactly SYN+ACK (0x12),
\* 'closed' when they are exactly RST+ACK (0x14), 'filtered' for any other
\* reply and for no reply, where _scan_port answers 'closed' to no reply.
C34_ScanWithScapyStatuses ==
    scapy.pc = "returned" =>
        /\ DictKeys(scapy.results) = Range(scapy.ports)
        /\ Len(scapy.results) = Cardinality(Range(scapy.ports))
        /\ \A port \in Range(scapy.ports) :
              LET resp == LastReplyFor(port)
                  status == DictGet(scapy.results, port)
              IN  /\ status = "open" <=> resp = Reply("tcp", SYN_ACK)
                  /\ status = "closed" <=> resp = Reply("tcp", RST_ACK)
                  /\ status = "filtered" <=> resp \notin {Reply("tcp", SYN_ACK), Reply("tcp", RST_ACK)}
                  /\ status \in {"open", "closed", "filtered"}
                  /\ resp = NoReply => status = "filtered" /\ PortStatus(resp) = "closed"

\* C34 witness: scan_with_scapy has returned 'filtered' for a port without
\* reply and 'filtered' for a port whose reply had SYN only
C34_Witness ==
    /\ scapy.pc = "returned"
    /\ scapy.ports = <<80, 443>>
    /\ scapy.resps = <<NoReply, Reply("tcp", 2)>>
    /\ scapy.results = <<<<80, "filtered">>, <<443, "filtered">>>>

\* C35: in every state in which get_scan_status(id) reports 'completed',
\* get_scan_results(id) returns the record of that scan, with its anomalies,
\* and not None.
C35_CompletedScanHasResults ==
    \A s \in ScanIds :
        SeenStatus(s) = "completed"
            => /\ GetScanResults(s) # None
               /\ GetScanResults(s).scan_id = s
               /\ "anomalies" \in DOMAIN GetScanResults(s)

\* C36: the progress stored for a running scan is at most 100 * (number of
\* its probes that have finished) / (number of probes scheduled for it); it is
\* 0 as long as no probe is scheduled or none has finished.
C36_ProgressNeverOverReports ==
    \A s \in DOMAIN active_scans :
        Status(s) = "running" =>
            LET finished  == Cardinality(FinishedTasks(s))
                scheduled == Len(loc[s].futures)
            IN  /\ active_scans[s].progress.den > 0
                /\ active_scans[s].progress.num >= 0
                /\ finished = 0 => ProgEq(active_scans[s].progress, Zero)
                /\ scheduled > 0
                      => ProgLe(active_scans[s].progress, Frac(100 * finished, scheduled))

\* C36 witness: the progress lags: the second probe of a running scan has
\* finished, the first has not, and the progress is still 0
C36_Witness ==
    \E s \in DOMAIN active_scans :
        /\ Status(s) = "running"
        /\ pc[s] = "wait"
        /\ Len(loc[s].futures) >= 2
        /\ fut_state[s][1] = "running"
        /\ fut_state[s][2] = "finished"
        /\ active_scans[s].progress = Zero

\* the PortResults of a results record, with their target and port
PortResultsOf(r) ==
    {<<r.results[ij[1]][1], r.results[ij[1]][2].ports[ij[2]][1],
       r.results[ij[1]][2].ports[ij[2]][2]>> :
        ij \in {x \in (DOMAIN r.results) \X (1..MaxTasks + 1) :
                   x[2] \in DOMAIN r.results[x[1]][2].ports}}

\* the results records of the scan lifecycle: of running scans, stored, saved
LifecycleRecords ==
    {results[s] : s \in DOMAIN results} \cup {scan_results[s] : s \in DOMAIN scan_results}
        \cup {files[s] : s \in DOMAIN files}

\* C37: on the scan-lifecycle path no PortResult has status 'filtered': every
\* status _scan_port writes is 'open', 'closed' or 'error', and a PortResult
\* has an error detail exactly when its status is 'error'.
C37_NoFilteredInLifecycle ==
    \A r \in LifecycleRecords : \A pr \in PortResultsOf(r) :
        /\ pr[3].status \in {"open", "closed", "error"}
        /\ pr[3].status # "filtered"
        /\ "error" \in DOMAIN pr[3] <=> pr[3].status = "error"
        /\ "service" \in DOMAIN pr[3]

\* C37 witness: a probe whose reply had no TCP layer, which scan_with_scapy
\* calls 'filtered', is stored as 'closed' in the saved record of its scan
C37_Witness ==
    \E s \in DOMAIN files : \E k \in DOMAIN got[s] :
        /\ got[s][k] = Reply("nontcp", 0)
        /\ ScapyStatus(got[s][k]) = "filtered"
        /\ <<loc[s].futures[k][1], loc[s].futures[k][2],
               [status |-> "closed", service |-> GuessService(loc[s].futures[k][2])]>>
              \in PortResultsOf(files[s])

\* the (target, port) pairs recorded open in the results of scan s
OpenPairs(s) ==
    {<<pr[1], pr[2]>> : pr \in {x \in PortResultsOf(results[s]) : x[3].status = "open"}}

\* the results of scan s with the status and error detail of the PortResults
\* that are not open left out: targets, ports and services, in their order
WithoutNonOpenStatus(s) ==
    [i \in DOMAIN results[s].results |->
        <<results[s].results[i][1],
          [j \in DOMAIN results[s].results[i][2].ports |->
              LET kv == results[s].results[i][2].ports[j]
              IN  <<kv[1], kv[2].service, kv[2].status = "open">>]>>]

\* C38: the findings of detect depend only on the (target, port) pairs that
\* are open: two inputs with the same targets, ports and services which
\* differ only in the status of their non-open ports (closed, filtered,
\* error) get the same findings, and an input without open port gets none.
C38_FindingsDependOnOpenPairs ==
    /\ \A s, o \in Detected :
          WithoutNonOpenStatus(s) = WithoutNonOpenStatus(o)
              => results[s].anomalies = results[o].anomalies
    /\ \A s \in Detected : OpenPairs(s) = {} => results[s].anomalies = << >>

\* C38 witness: detect gave the same, non-empty findings for two inputs
\* one of which has a filtered and an error port where the other has closed ones
C38_Witness ==
    /\ Detected = ScanIds
    /\ WithoutNonOpenStatus("s1") = WithoutNonOpenStatus("s2")
    /\ \E x \in PortResultsOf(results["s2"]) : x[3].status = "filtered"
    /\ \E x \in PortResultsOf(results["s2"]) : x[3].status = "error"
    /\ \A x \in PortResultsOf(results["s1"]) : x[3].status \in {"open", "closed"}
    /\ results["s1"].anomalies # << >>
    /\ results["s1"].anomalies = results["s2"].anomalies

\* the identical_port_pattern findings of scan s that list the target
ListedIn(s, target) ==
    {k \in DOMAIN Findings(s, "identical_port_pattern") :
        target \in Range(Findings(s, "identical_port_pattern")[k].targets)}

\* C39: in the output of detect each target is listed in at most one
\* identical_port_pattern finding (and once in it), every target a finding
\* lists has exactly the finding's ports as its set of open ports, and a
\* target without open port is listed in no finding.
C39_PatternFindingsPartitionTargets ==
    \A s \in Detected :
        LET found == Findings(s, "identical_port_pattern")
        IN  /\ \A i \in DOMAIN results[s].results :
                  LET target == results[s].results[i][1]
                  IN  /\ Cardinality(ListedIn(s, target)) <= 1
                      /\ \A k \in ListedIn(s, target) :
                            /\ Range(found[k].ports) = OpenOn(s, i)
                            /\ Len(found[k].ports) = Cardinality(OpenOn(s, i))
                      /\ OpenOn(s, i) = {} => ListedIn(s, target) = {}
            /\ \A k \in DOMAIN found :
                  /\ Range(found[k].targets) \subseteq DictKeys(results[s].results)
                  /\ Len(found[k].targets) = Cardinality(Range(found[k].targets))

\* C39 witness: of three targets, two with the same three open ports are
\* listed in the one finding, and the third, without open port, is not
C39_Witness ==
    \E s \in Detected :
        /\ Len(results[s].results) = 3
        /\ Len(Findings(s, "identical_port_pattern")) = 1
        /\ \E i \in DOMAIN results[s].results :
              /\ OpenOn(s, i) = {}
              /\ ListedIn(s, results[s].results[i][1]) = {}
        /\ \E i, j \in DOMAIN results[s].results :
              /\ i # j
              /\ ListedIn(s, results[s].results[i][1]) = {1}
              /\ ListedIn(s, results[s].results[j][1]) = {1}
              /\ OpenOn(s, i) = {80, 443, 8080}

====
